---- MODULE Spec2Model ----
(***************************************************************************)
(* Model of the SAM visa-sponsorship query engine:                         *)
(*   src/src/immigration_main_agent.py  EnhancedImmigrationAgent           *)
(*   src/src/agent.py                   run_agent_query                    *)
(*   src/src/services/data_service.py   DataService                        *)
(*   src/src/tools.py, src/src/langchain_tools.py  tool wrappers           *)
(*   src/src/immigration_agent.py       ImmigrationAgent                   *)
(*   src/src/web_sources.py             source-lookup collaborators        *)
(*                                                                         *)
(* Text is modelled as TLA+ strings, character by character: TLC applies   *)
(* Len, SubSeq and \o to strings.  The character "~" stands for the        *)
(* unicode dash U+2013, which cannot be written in a TLA+ string.          *)
(***************************************************************************)
EXTENDS Integers, Sequences, FiniteSets, TLC

(***************************************************************************)
(* Python values                                                           *)
(***************************************************************************)
\* Python None, as returned by a matcher that declines to match
None == [tag |-> "None"]

\* a raised exception carrying its message
Raise(m) == [tag |-> "exc", msg |-> m]

\* a normally returned value
Return(v) == [tag |-> "ok", val |-> v]

Min(a, b) == IF a <= b THEN a ELSE b

(***************************************************************************)
(* Characters and the str methods and regex atoms the code uses            *)
(***************************************************************************)
UpperChars == "ABCDEFGHIJKLMNOPQRSTUVWXYZ"
LowerChars == "abcdefghijklmnopqrstuvwxyz"
DigitChars == "0123456789"

\* s[i-1] of Python, as a one-character string ("" outside the string)
Ch(s, i) == IF i >= 1 /\ i <= Len(s) THEN SubSeq(s, i, i) ELSE ""

\* the characters of a string, as a set of one-character strings
CharsOf(chars) == {SubSeq(chars, k, k) : k \in 1..Len(chars)}

LowerSet == CharsOf(LowerChars)
UpperSet == CharsOf(UpperChars)
DigitSet == CharsOf(DigitChars)

\* regex [a-z]
IsLower(c) == c \in LowerSet

IsUpper(c) == c \in UpperSet

\* regex \d
IsDigit(c) == c \in DigitSet

\* regex \s
IsSpace(c) == c = " " \/ c = "\t" \/ c = "\n"

\* regex \w
IsWord(c) == IsLower(c) \/ IsUpper(c) \/ IsDigit(c) \/ c = "_"

\* regex [‐-―]
IsUnicodeDash(c) == c = "~"

LowerOf == [c \in UpperSet |->
              LET k == CHOOSE k \in 1..Len(UpperChars) : SubSeq(UpperChars, k, k) = c
              IN  SubSeq(LowerChars, k, k)]

UpperOf == [c \in LowerSet |->
              LET k == CHOOSE k \in 1..Len(LowerChars) : SubSeq(LowerChars, k, k) = c
              IN  SubSeq(UpperChars, k, k)]

LowerChar(c) == IF IsUpper(c) THEN LowerOf[c] ELSE c

UpperChar(c) == IF IsLower(c) THEN UpperOf[c] ELSE c

RECURSIVE lower(_)
\* str.lower()
lower(s) == IF s = "" THEN "" ELSE LowerChar(Ch(s, 1)) \o lower(Tail(s))

\* s[i-1:].startswith(w)
StartsWithAt(s, i, w) == i + Len(w) - 1 <= Len(s) /\ SubSeq(s, i, i + Len(w) - 1) = w

\* w in s
Contains(s, w) == \E i \in 1..(Len(s) + 1) : StartsWithAt(s, i, w)

RECURSIVE lstrip(_)
lstrip(s) == IF s # "" /\ IsSpace(Ch(s, 1)) THEN lstrip(Tail(s)) ELSE s

RECURSIVE rstrip(_)
rstrip(s) ==
    IF s # "" /\ IsSpace(Ch(s, Len(s))) THEN rstrip(SubSeq(s, 1, Len(s) - 1)) ELSE s

\* str.strip()
strip(s) == rstrip(lstrip(s))

RECURSIVE ReplaceDashes(_)
\* re.sub(r"[‐-―]", "-", t)
ReplaceDashes(s) ==
    IF s = "" THEN ""
    ELSE (IF IsUnicodeDash(Ch(s, 1)) THEN "-" ELSE Ch(s, 1)) \o ReplaceDashes(Tail(s))

RECURSIVE CollapseSpaces(_)
\* re.sub(r"\s+", " ", t)
CollapseSpaces(s) ==
    IF s = "" THEN ""
    ELSE IF IsSpace(Ch(s, 1))
         THEN " " \o CollapseSpaces(lstrip(s))
         ELSE Ch(s, 1) \o CollapseSpaces(Tail(s))

RECURSIVE RemoveCommas(_)
\* num.replace(',', '')
RemoveCommas(s) ==
    IF s = "" THEN ""
    ELSE (IF Ch(s, 1) = "," THEN "" ELSE Ch(s, 1)) \o RemoveCommas(Tail(s))

DigitValues == [c \in DigitSet |->
                  (CHOOSE k \in 1..Len(DigitChars) : SubSeq(DigitChars, k, k) = c) - 1]

DigitVal(c) == DigitValues[c]

RECURSIVE ToNumber(_)
\* float(num) of a string of decimal digits
ToNumber(s) ==
    IF s = "" THEN 0
    ELSE 10 * ToNumber(SubSeq(s, 1, Len(s) - 1)) + DigitVal(Ch(s, Len(s)))

\* the position after a maximal run of \s starting at i
RECURSIVE SkipSpaces(_, _)
SkipSpaces(s, i) == IF IsSpace(Ch(s, i)) THEN SkipSpaces(s, i + 1) ELSE i

\* the position after a maximal run of [\d,] starting at i
RECURSIVE SkipDigitsCommas(_, _)
SkipDigitsCommas(s, i) ==
    IF IsDigit(Ch(s, i)) \/ Ch(s, i) = "," THEN SkipDigitsCommas(s, i + 1) ELSE i

(***************************************************************************)
(* EnhancedImmigrationAgent: text normalisation and the intent matchers    *)
(***************************************************************************)
normalize_text(s) == strip(CollapseSpaces(ReplaceDashes(lower(s))))

\* The tail  \s*\$?(\d[\d,]*)(k|\$)?(?![a-z])  of the wage patterns, matched
\* at position j with the regex engine's greedy choice and backtracking:
\* the longest digit run first, the suffix before no suffix.  The result is
\* the pair of groups, or None.
AmountAt(s, j) ==
    LET a == SkipSpaces(s, j)
        b == IF Ch(s, a) = "$" THEN a + 1 ELSE a
        e == SkipDigitsCommas(s, b)
        \* the candidate ends of group 1, longest first
        Ends == IF IsDigit(Ch(s, b)) THEN (b + 1)..e ELSE {}
        WithSuffix(x) == (Ch(s, x) = "k" \/ Ch(s, x) = "$") /\ ~IsLower(Ch(s, x + 1))
        Bare(x) == ~IsLower(Ch(s, x))
        Good == {x \in Ends : WithSuffix(x) \/ Bare(x)}
    IN  IF Good = {} THEN None
        ELSE LET x == CHOOSE x \in Good : \A y \in Good : y <= x
             IN  [tag |-> "groups",
                  g1 |-> SubSeq(s, b, x - 1),
                  g2 |-> IF WithSuffix(x) THEN Ch(s, x) ELSE ""]

\* re.search of  (?<![a-z0-9])(?:w1|w2|...)<amount tail>  : the leftmost
\* position where the pattern matches
SearchAmount(s, words) ==
    LET MatchAt(i) ==
            /\ ~(IsLower(Ch(s, i - 1)) \/ IsDigit(Ch(s, i - 1)))
            /\ \E k \in 1..Len(words) :
                  /\ StartsWithAt(s, i, words[k])
                  /\ AmountAt(s, i + Len(words[k])) # None
        Starts == {i \in 1..Len(s) : MatchAt(i)}
    IN  IF Starts = {} THEN None
        ELSE LET i == CHOOSE i \in Starts : \A y \in Starts : i <= y
                 k == CHOOSE k \in 1..Len(words) :
                        /\ StartsWithAt(s, i, words[k])
                        /\ \A m \in 1..(k - 1) :
                              ~(StartsWithAt(s, i, words[m])
                                /\ AmountAt(s, i + Len(words[m])) # None)
                        /\ AmountAt(s, i + Len(words[k])) # None
             IN  AmountAt(s, i + Len(words[k]))

\* val = float(num); if group 2 holds a k or val < 1000: val *= 1000
WageValue(m) ==
    LET val == ToNumber(RemoveCommas(m.g1))
    IN  IF m.g2 = "k" \/ val < 1000 THEN val * 1000 ELSE val

LessWords == <<"less than", "under", "below">>
MoreWords == <<"more than", "above", "over", "at least">>

\* _extract_wage: (wage, op) or None
extract_wage(s) ==
    LET less == SearchAmount(s, LessWords)
        more == SearchAmount(s, MoreWords)
    IN  IF less # None THEN [tag |-> "wage", val |-> WageValue(less), op |-> "lte"]
        ELSE IF more # None THEN [tag |-> "wage", val |-> WageValue(more), op |-> "gte"]
        ELSE None

\* an optional "-" between optional runs of \s :  \s*-?\s*
SkipSep(s, i) ==
    LET a == SkipSpaces(s, i)
    IN  IF Ch(s, a) = "-" THEN SkipSpaces(s, a + 1) ELSE a

\* re.search(r"h\s*-?\s*1\s*-?\s*b", q)
SearchH1B(q) ==
    \E i \in 1..Len(q) :
        /\ Ch(q, i) = "h"
        /\ LET a == SkipSep(q, i + 1)
           IN  /\ Ch(q, a) = "1"
               /\ Ch(q, SkipSep(q, a + 1)) = "b"

\* re.search(r"e\s*-?\s*3", q)
SearchE3(q) ==
    \E i \in 1..Len(q) : Ch(q, i) = "e" /\ Ch(q, SkipSep(q, i + 1)) = "3"

\* _extract_visa: 'H-1B', 'PERM', 'E-3' or None
extract_visa(q) ==
    IF SearchH1B(q) THEN [tag |-> "visa", class |-> "H-1B"]
    ELSE IF Contains(q, "perm") \/ Contains(q, "green card") \/ Contains(q, "greencard")
         THEN [tag |-> "visa", class |-> "PERM"]
    ELSE IF SearchE3(q) \/ Contains(q, "e3") THEN [tag |-> "visa", class |-> "E-3"]
    ELSE None

\* re.search(r"\bh[-‐-―]?\s?1b\b", q)
SearchH1BWord(q) ==
    \E i \in 1..Len(q) :
        /\ Ch(q, i) = "h"
        /\ ~IsWord(Ch(q, i - 1))
        /\ LET a == IF Ch(q, i + 1) = "-" \/ IsUnicodeDash(Ch(q, i + 1)) THEN i + 2 ELSE i + 1
               b == IF IsSpace(Ch(q, a)) THEN a + 1 ELSE a
           IN  StartsWithAt(q, b, "1b") /\ ~IsWord(Ch(q, b + 2))

\* regex [A-Za-z0-9&.,'()\-\s]
IsNameChar(c) ==
    \/ IsLower(c) \/ IsUpper(c) \/ IsDigit(c) \/ IsSpace(c)
    \/ c = "&" \/ c = "." \/ c = "," \/ c = "'" \/ c = "(" \/ c = ")" \/ c = "-"

RECURSIVE SkipNameChars(_, _)
SkipNameChars(s, i) == IF IsNameChar(Ch(s, i)) THEN SkipNameChars(s, i + 1) ELSE i

\* m = re.search(r"(?:w1|w2|..)\s+([A-Za-z0-9&.,'()\-\s]{n,})", query, flags=re.I);
\* m.group(1).strip() if m else ""
\* \s+ is greedy and gives spaces back to the group until it has n characters.
SearchNameAfter(query, words, n) ==
    LET low == lower(query)
        GroupAt(j) ==
            LET a == SkipSpaces(query, j)
                e == SkipNameChars(query, j)
                Froms == {f \in (j + 1)..a : e - f >= n}
            IN  IF Froms = {} THEN None
                ELSE [tag |-> "group",
                      g1 |-> SubSeq(query, CHOOSE f \in Froms : \A y \in Froms : y <= f, e - 1)]
        MatchAt(i) ==
            \E k \in 1..Len(words) :
                StartsWithAt(low, i, words[k]) /\ GroupAt(i + Len(words[k])) # None
        Starts == {i \in 1..Len(query) : MatchAt(i)}
    IN  IF Starts = {} THEN ""
        ELSE LET i == CHOOSE i \in Starts : \A y \in Starts : i <= y
                 k == CHOOSE k \in 1..Len(words) :
                        /\ StartsWithAt(low, i, words[k])
                        /\ GroupAt(i + Len(words[k])) # None
                        /\ \A m \in 1..(k - 1) :
                              ~(StartsWithAt(low, i, words[m])
                                /\ GroupAt(i + Len(words[m])) # None)
             IN  strip(GroupAt(i + Len(words[k])).g1)

\* _extract_faq_intent: (intent, args) or None
extract_faq_intent(query) ==
    LET q == normalize_text(query)
    IN  IF /\ (Contains(q, "which companies") \/ Contains(q, "top")
               \/ Contains(q, "filed the most") \/ Contains(q, "most petitions"))
           /\ (Contains(q, "2025") \/ Contains(q, "fy 2025"))
           /\ SearchH1BWord(q)
        THEN [tag |-> "faq", intent |-> "top_h1b_companies_2025", arg |-> ""]
        ELSE IF /\ (Contains(q, "which majors") \/ Contains(q, "majors"))
                /\ (SearchH1BWord(q) \/ Contains(q, "approve") \/ Contains(q, "approved")
                    \/ Contains(q, "approval") \/ Contains(q, "certif"))
        THEN [tag |-> "faq", intent |-> "majors_approval", arg |-> ""]
        ELSE IF /\ (Contains(q, "sponsor") \/ Contains(q, "sponsored"))
                /\ (Contains(q, "school") \/ Contains(q, "university"))
        THEN [tag |-> "faq", intent |-> "school_sponsors",
              arg |-> SearchNameAfter(query, <<"from", "at">>, 3)]
        ELSE IF /\ (Contains(q, "how many") \/ Contains(q, "how much") \/ Contains(q, "number"))
                /\ (Contains(q, "company") \/ Contains(q, "employer") \/ Contains(q, "from"))
                /\ (SearchH1BWord(q) \/ Contains(q, "petition") \/ Contains(q, "lca"))
        THEN [tag |-> "faq", intent |-> "company_counts",
              arg |-> SearchNameAfter(query, <<"company", "employer", "from">>, 2)]
        ELSE None

\* any(term in query for term in terms)
AnyIn(query, terms) == \E k \in 1..Len(terms) : Contains(query, terms[k])

immigration_keywords ==
    <<"opt", "f-1", "student", "visa", "sponsor", "green card", "perm",
      "h-1b", "h1b", "immigration", "pathway", "timeline", "process",
      "international student", "work authorization", "permanent residency">>

\* _is_immigration_query
is_immigration_query(query) == AnyIn(lower(query), immigration_keywords)

(***************************************************************************)
(* The text analysis of run_agent_query (src/src/agent.py)                 *)
(***************************************************************************)
\* _parse_wage: re.search(r"\$?\s*(\d[\d,]*)(k)?", q.lower()), as str(int(val))
parse_wage(q) ==
    LET s == lower(q)
        Digits == {i \in 1..Len(s) : IsDigit(Ch(s, i))}
    IN  IF Digits = {} THEN None
        ELSE LET b == CHOOSE i \in Digits : \A y \in Digits : i <= y
                 e == SkipDigitsCommas(s, b)
                 val == ToNumber(RemoveCommas(SubSeq(s, b, e - 1)))
             IN  [tag |-> "str",
                  text |-> ToString(IF Ch(s, e) = "k" \/ val < 1000 THEN val * 1000 ELSE val)]

(***************************************************************************)
(* The text analysis of ImmigrationAgent (src/src/immigration_agent.py)    *)
(***************************************************************************)
RECURSIVE TitleFrom(_, _)
TitleFrom(s, i) ==
    IF i > Len(s) THEN ""
    ELSE (IF IsLower(Ch(s, i - 1)) \/ IsUpper(Ch(s, i - 1))
          THEN LowerChar(Ch(s, i)) ELSE UpperChar(Ch(s, i))) \o TitleFrom(s, i + 1)

\* str.title()
title(s) == TitleFrom(s, 1)

\* the first term of terms that occurs in query, or None
FirstIn(query, terms) ==
    IF AnyIn(query, terms)
    THEN LET k == CHOOSE k \in 1..Len(terms) :
                     /\ Contains(query, terms[k])
                     /\ \A m \in 1..(k - 1) : ~Contains(query, terms[m])
         IN  [tag |-> "str", text |-> terms[k]]
    ELSE None

\* _detect_visa_stage
detect_visa_stage(query) ==
    IF AnyIn(query, <<"opt", "f-1", "student", "graduate">>) THEN "opt_stage"
    ELSE IF AnyIn(query, <<"h-1b", "h1b", "lottery", "sponsor">>) THEN "h1b_stage"
    ELSE IF AnyIn(query, <<"green card", "perm", "permanent", "eb-2", "eb-3">>)
         THEN "green_card_stage"
    ELSE IF AnyIn(query, <<"pathway", "journey", "timeline", "process">>)
         THEN "full_pathway"
    ELSE "general"

\* _extract_location
extract_location(query) ==
    LET city == FirstIn(query, <<"san francisco", "new york", "seattle", "chicago",
                                 "boston", "austin", "los angeles">>)
    IN  IF city # None THEN [tag |-> "str", text |-> title(city.text)] ELSE None

\* _extract_company
extract_company(query) ==
    LET company == FirstIn(query, <<"google", "microsoft", "amazon", "apple", "meta",
                                    "netflix", "tesla">>)
    IN  IF company # None THEN [tag |-> "str", text |-> title(company.text)] ELSE None

\* _detect_salary_concern
detect_salary_concern(query) ==
    AnyIn(query, <<"salary", "wage", "pay", "money", "prevailing">>)

\* analyze_immigration_query: the parts of the context the guidance uses
analyze_immigration_query(query) ==
    LET query_lower == lower(query)
    IN  [visa_stage |-> detect_visa_stage(query_lower),
         location_focus |-> extract_location(query_lower),
         salary_concern |-> detect_salary_concern(query_lower),
         company_specific |-> extract_company(query_lower)]

(***************************************************************************)
(* The queries the operations are called with                              *)
(***************************************************************************)
DirectionWords == {"", "under ", "Under ", "less than ", "below ", "UNDER  ",
                   "more than ", "above ", "Above ", "over ", "at least ", "at  least "}

AmountTokens == {"120k", "$120,000", "120000", "120,000$", "95", "95000",
                 "120kb", "50mb", "120K", "1,000"}

QueryTails == {"", " h-1b", " H-1B", " h~1b", " green  card", " PERM", " e3 visa"}

WordQueries ==
    {"H-1B jobs", "h-1b jobs", "h 1 b", "E-3 jobs", "e-3 jobs", "green card sponsors",
     "top h-1b 2025", "Top H1B companies 2025", "which majors get approved",
     "did my school sponsor", "sponsored at  MIT university",
     "how many h-1b from Google", "student pathway", "OPT timeline in Austin",
     "google visa salary", "visa wage", "jobs in chicago", "show sample jobs",
     "high paying jobs in San Francisco", "hello"}

\* the texts the matchers are applied to
MatcherQueries ==
    WordQueries \cup {d \o a \o t : d \in DirectionWords, a \in AmountTokens, t \in QueryTails}

\* the queries process_query is called with
Queries ==
    WordQueries \cup {d \o a \o t : d \in {"", "under ", "Under ", "above "},
                                    a \in {"120k", "$120,000", "120kb"},
                                    t \in {"", " h-1b", " PERM"}}

\* the queries run_agent_query is called with
AgentQueries ==
    {"show sample jobs", "jobs in San Francisco", "jobs in chicago", "high paying jobs",
     "jobs over 120k", "top 5 employers", "hello", "$95,000 jobs", "area code 120"}

\* what process_query and run_agent_query read off the text of the query;
\* the operators below take it as their parameter text
\* alone, before and between their calls to the store
QueryAnalysis(query) ==
    [faq |-> extract_faq_intent(query), visa |-> extract_visa(query),
     wage_info |-> extract_wage(query), immigration |-> is_immigration_query(query),
     context |-> analyze_immigration_query(query), wage |-> parse_wage(query),
     query_lower |-> lower(query)]

\* QueryAnalysis, tabulated over the queries the operations are called with
Analysed == [q \in Queries \cup AgentQueries |-> QueryAnalysis(q)]


(***************************************************************************)
(* The record store (external): rows as the remote select returns them     *)
(***************************************************************************)
\* Python None in a numeric column
NoWage == -1

\* Python None in a text column
NoText == "<None>"

\* the largest number of rows in one store response
MaxRows == 3

\* the largest limit an accessor is called with directly
MaxLimit == 2

\* the number of store calls one query can issue, each of which may fail
MaxStoreCalls == 4

Thresholds == {0, 90000, 120000}

Worksite(city, wage) ==
    [worksite_city |-> city, worksite_state |-> "TX", prevailing_wage |-> wage]

\* the worksite sub-records one filing can be joined to
WorksiteLists ==
    { <<>>,
      <<Worksite("Austin", 90000)>>,
      <<Worksite("Austin", 150000)>>,
      <<Worksite("Boston", NoWage)>>,
      <<Worksite("Austin", 150000), Worksite("Boston", 150000)>>,
      <<Worksite("Boston", 90000), Worksite("Austin", 150000)>> }

LcaRow(k, visa, worksites) ==
    [case_number |-> "L-" \o ToString(k), employer_name |-> "Acme",
     job_title |-> "Engineer", visa_class |-> visa, lca_worksites |-> worksites]

PermRow(k, wage) ==
    [case_number |-> "P-" \o ToString(k), employer_name |-> "Acme",
     job_title |-> "Analyst", worksite_city |-> "Austin", worksite_state |-> "TX",
     wage_offer_to |-> wage, decision_date |-> "2024-01-01",
     case_status |-> "Certified", employer_country |-> "US",
     job_info_education |-> "Master's"]

PermWages == {NoWage, 0, 90000, 150000}

\* the responses of the table lca_filings with at most n rows: the k-th row
\* has case number k, its visa class is drawn from visas and its worksite
\* sub-records from worksites
LcaResponses(n, visas, worksites) ==
    UNION { { [k \in 1..m |-> LcaRow(k, f[k][1], f[k][2])] :
                f \in [1..m -> visas \X worksites] } : m \in 0..n }

\* the responses of the table perm_disclosure with at most n rows, the
\* offered wages drawn from wages
PermResponses(n, wages) ==
    UNION { { [k \in 1..m |-> PermRow(k, f[k])] : f \in [1..m -> wages] } :
            m \in 0..n }

StoreError == Raise("store unreachable")

(***************************************************************************)
(* DataService (src/src/services/data_service.py)                          *)
(***************************************************************************)
\* results[:n]
Take(seq, n) == SubSeq(seq, 1, Min(n, Len(seq)))

RECURSIVE FlatMap(_, _)
\* the concatenation of F(row) over the rows, in order
FlatMap(F(_), rows) ==
    IF rows = <<>> THEN <<>> ELSE F(Head(rows)) \o FlatMap(F, Tail(rows))

\* a sort that puts a record before the earlier records of equal wage
InsertByWageDesc_Unstable(sorted, x) ==
    LET n == Cardinality({i \in 1..Len(sorted) : sorted[i].wage > x.wage})
    IN  SubSeq(sorted, 1, n) \o <<x>> \o SubSeq(sorted, n + 1, Len(sorted))

\* the position at which list.sort(key=wage, reverse=True) leaves x among
\* the already sorted elements: behind every element of equal or higher wage
InsertByWageDesc(sorted, x) ==
    LET n == Cardinality({i \in 1..Len(sorted) : sorted[i].wage >= x.wage})
    IN  SubSeq(sorted, 1, n) \o <<x>> \o SubSeq(sorted, n + 1, Len(sorted))

RECURSIVE SortByWageDesc(_)
\* jobs.sort(key=lambda x: x['wage'], reverse=True): a stable sort
SortByWageDesc(jobs) ==
    IF jobs = <<>> THEN <<>>
    ELSE InsertByWageDesc(SortByWageDesc(SubSeq(jobs, 1, Len(jobs) - 1)), jobs[Len(jobs)])

\* worksite['prevailing_wage'] if worksite['prevailing_wage'] is not None else 0.0
WageOrZero(w) == IF w # NoWage THEN w ELSE 0

\* the normalized record of one filing and one of its worksites
LcaRecord(record, worksite) ==
    [case_number |-> record.case_number, company |-> record.employer_name,
     job_title |-> record.job_title, city |-> worksite.worksite_city,
     state |-> worksite.worksite_state,
     wage |-> WageOrZero(worksite.prevailing_wage),
     visa_class |-> record.visa_class]

\* the record of a filing without worksites
LcaRecordNoWorksite(record) ==
    [case_number |-> record.case_number, company |-> record.employer_name,
     job_title |-> record.job_title, city |-> NoText, state |-> NoText,
     wage |-> 0, visa_class |-> record.visa_class]

\* float(record.get('wage_offer_to', 0)) if record.get('wage_offer_to') else 0.0
PermWage(record) ==
    IF record.wage_offer_to # NoWage /\ record.wage_offer_to # 0
    THEN record.wage_offer_to ELSE 0

\* the standardized record of one PERM row
PermRecord(record) ==
    [case_number |-> record.case_number, company |-> record.employer_name,
     job_title |-> record.job_title, city |-> record.worksite_city,
     state |-> record.worksite_state, wage |-> PermWage(record),
     visa_class |-> "PERM", decision_date |-> record.decision_date,
     case_status |-> record.case_status,
     employer_country |-> record.employer_country,
     job_info_education |-> record.job_info_education]

\* DataService.get_sample_joined_data, given the outcome of the store call
get_sample_joined_data(resp) ==
    IF resp.tag = "exc" THEN resp
    ELSE LET Flatten(record) ==
                 IF record.lca_worksites # <<>>
                 THEN [i \in 1..Len(record.lca_worksites) |->
                          LcaRecord(record, record.lca_worksites[i])]
                 ELSE <<LcaRecordNoWorksite(record)>>
         IN  Return(FlatMap(Flatten, resp.val))

\* DataService.get_sample_perm_data
get_sample_perm_data(resp) ==
    IF resp.tag = "exc" THEN resp
    ELSE Return([i \in 1..Len(resp.val) |-> PermRecord(resp.val[i])])

\* get_high_wage_jobs relying on the remote filter alone
get_high_wage_jobs_RemoteFilterOnly(min_wage, limit, resp) ==
    IF resp.tag = "exc" THEN resp
    ELSE LET Flatten(record) ==
                 [i \in 1..Len(record.lca_worksites) |->
                     LcaRecord(record, record.lca_worksites[i])]
         IN  Return(Take(SortByWageDesc(FlatMap(Flatten, resp.val)), limit))

\* DataService.get_high_wage_jobs
get_high_wage_jobs(min_wage, limit, resp) ==
    IF resp.tag = "exc" THEN resp
    ELSE LET Flatten(record) ==
                 LET kept == SelectSeq(record.lca_worksites,
                                 LAMBDA w : WageOrZero(w.prevailing_wage) >= min_wage)
                 IN  [i \in 1..Len(kept) |-> LcaRecord(record, kept[i])]
         IN  Return(Take(SortByWageDesc(FlatMap(Flatten, resp.val)), limit))

\* DataService.get_perm_high_wage_jobs
get_perm_high_wage_jobs(min_wage, limit, resp) ==
    IF resp.tag = "exc" THEN resp
    ELSE LET kept == SelectSeq(resp.val, LAMBDA r : PermWage(r) >= min_wage)
         IN  Return(Take(SortByWageDesc([i \in 1..Len(kept) |-> PermRecord(kept[i])]),
                         limit))

\* DataService.get_all_high_wage_jobs: the two fetches run in this order and
\* the first failure propagates
get_all_high_wage_jobs(min_wage, limit, lcaResp, permResp) ==
    LET lca_jobs == get_high_wage_jobs(min_wage, limit \div 2, lcaResp)
        perm_jobs == get_perm_high_wage_jobs(min_wage, limit \div 2, permResp)
    IN  IF lca_jobs.tag = "exc" THEN lca_jobs
        ELSE IF perm_jobs.tag = "exc" THEN perm_jobs
        ELSE Return(Take(SortByWageDesc(lca_jobs.val \o perm_jobs.val), limit))


\* DataService.get_filings_by_city: worksite['worksite_city'].lower() raises
\* on a worksite whose city is None
get_filings_by_city(city, resp) ==
    IF resp.tag = "exc" THEN resp
    ELSE IF \E i \in 1..Len(resp.val) : \E j \in 1..Len(resp.val[i].lca_worksites) :
               resp.val[i].lca_worksites[j].worksite_city = NoText
    THEN Raise("'NoneType' object has no attribute 'lower'")
    ELSE LET Flatten(record) ==
                 LET kept == SelectSeq(record.lca_worksites,
                                 LAMBDA w : Contains(lower(w.worksite_city), lower(city)))
                 IN  [i \in 1..Len(kept) |-> LcaRecord(record, kept[i])]
         IN  Return(FlatMap(Flatten, resp.val))

\* the record get_jobs_by_company and get_jobs_by_title build
LcaRawRecord(record, worksite) ==
    [case_number |-> record.case_number, employer_name |-> record.employer_name,
     job_title |-> record.job_title, worksite_city |-> worksite.worksite_city,
     prevailing_wage |-> worksite.prevailing_wage]

\* DataService.get_jobs_by_company
get_jobs_by_company(resp) ==
    IF resp.tag = "exc" THEN resp
    ELSE LET Flatten(record) ==
                 [i \in 1..Len(record.lca_worksites) |->
                     LcaRawRecord(record, record.lca_worksites[i])]
         IN  Return(FlatMap(Flatten, resp.val))

\* DataService.get_jobs_by_title
get_jobs_by_title(resp) ==
    IF resp.tag = "exc" THEN resp
    ELSE LET Flatten(record) ==
                 [i \in 1..Len(record.lca_worksites) |->
                     LcaRawRecord(record, record.lca_worksites[i])]
         IN  Return(FlatMap(Flatten, resp.val))

\* DataService.get_perm_by_city
get_perm_by_city(resp) ==
    IF resp.tag = "exc" THEN resp
    ELSE Return([i \in 1..Len(resp.val) |-> PermRecord(resp.val[i])])

\* get_perm_by_company losing the first row of the response
get_perm_by_company_SkipsFirst(resp) ==
    IF resp.tag = "exc" THEN resp
    ELSE Return([i \in 1..(Len(resp.val) - 1) |-> PermRecord(resp.val[i + 1])])

\* DataService.get_perm_by_company
get_perm_by_company(resp) ==
    IF resp.tag = "exc" THEN resp
    ELSE Return([i \in 1..Len(resp.val) |-> PermRecord(resp.val[i])])

\* DataService.get_perm_by_title
get_perm_by_title(resp) ==
    IF resp.tag = "exc" THEN resp
    ELSE Return([i \in 1..Len(resp.val) |-> PermRecord(resp.val[i])])

\* DataService.get_all_jobs_by_city
get_all_jobs_by_city(city, lcaResp, permResp) ==
    LET lca_jobs == get_filings_by_city(city, lcaResp)
        perm_jobs == get_perm_by_city(permResp)
    IN  IF lca_jobs.tag = "exc" THEN lca_jobs
        ELSE IF perm_jobs.tag = "exc" THEN perm_jobs
        ELSE Return(lca_jobs.val \o perm_jobs.val)

(***************************************************************************)
(* format_job_results (src/src/tools.py).  The report string is modelled   *)
(* by its parts: the title and count of the header, the rendered entries   *)
(* and the count of the trailing "... and N more results" line (0: none).  *)
(***************************************************************************)
\* the number of entries a report lists
PresentationCap == 10

NotSpecified == "Not specified"

\* job.get(key) of a text field
GetText(job, key) == IF key \in DOMAIN job THEN job[key] ELSE NoText

\* job.get('wage')
GetWage(job) == IF "wage" \in DOMAIN job THEN job.wage ELSE NoWage

\* _nz
nz(val) ==
    IF val = NoText THEN NotSpecified
    ELSE LET v == strip(CollapseSpaces(val))
         IN  IF v = "" THEN NotSpecified ELSE v

RECURSIVE GroupThousands(_)
GroupThousands(digits) ==
    IF Len(digits) <= 3 THEN digits
    ELSE GroupThousands(SubSeq(digits, 1, Len(digits) - 3)) \o ","
         \o SubSeq(digits, Len(digits) - 2, Len(digits))

\* f"{v:,.0f}" of a non-negative whole amount
Commas(v) == GroupThousands(ToString(v))

\* the Salary line
SalaryStr(wage_val) ==
    IF wage_val # NoWage /\ wage_val > 0 THEN "$" \o Commas(wage_val) ELSE NotSpecified

\* the Location line always written as a pair
LocStr_AlwaysPair(city, state) == city \o ", " \o state

\* the Location line
LocStr(city, state) ==
    IF city = NotSpecified /\ state # NotSpecified THEN state
    ELSE IF city # NotSpecified /\ state = NotSpecified THEN city
    ELSE IF city = NotSpecified /\ state = NotSpecified THEN NotSpecified
    ELSE city \o ", " \o state

\* one numbered entry of a report
Entry(i, job, visa) ==
    [n |-> i, company |-> nz(GetText(job, "company")),
     position |-> nz(GetText(job, "job_title")),
     location |-> LocStr(nz(GetText(job, "city")), nz(GetText(job, "state"))),
     salary |-> SalaryStr(GetWage(job)), visa |-> visa]

\* format_job_results without its closing "... and N more results" line
format_job_results_NoTrailer(results, query_type) ==
    [tag |-> "report", title |-> title(query_type), found |-> Len(results),
     entries |-> [i \in 1..Min(PresentationCap, Len(results)) |->
                     Entry(i, results[i], nz(GetText(results[i], "visa_class")))],
     more |-> 0,
     note |-> IF results = <<>> THEN "No results found matching your criteria." ELSE ""]

format_job_results(results, query_type) ==
    IF results = <<>>
    THEN [tag |-> "report", title |-> title(query_type), found |-> 0, entries |-> <<>>,
          more |-> 0, note |-> "No results found matching your criteria."]
    ELSE [tag |-> "report", title |-> title(query_type), found |-> Len(results),
          entries |-> [i \in 1..Min(PresentationCap, Len(results)) |->
                          Entry(i, results[i], nz(GetText(results[i], "visa_class")))],
          more |-> IF Len(results) > PresentationCap
                   THEN Len(results) - PresentationCap ELSE 0,
          note |-> ""]


(***************************************************************************)
(* The environment of one query.  env.lca and env.perm are the rows the    *)
(* two tables answer with, env.fail[k] tells whether the k-th store call   *)
(* of the query fails, env.fetch_ok whether web_sources._fetch gets a      *)
(* page, env.agent is the outcome of the tool-calling agent loop.          *)
(* An operation that calls the store takes the index k of its first call   *)
(* and returns its result (out) with the calls it issued (calls).          *)
(***************************************************************************)
StoreCall(env, k, table) == IF env.fail[k] THEN StoreError ELSE Return(env[table])

CallRec(fn, args, env, k) == [fn |-> fn, args |-> args, failed |-> env.fail[k]]

\* a plain Python string
Text(t) == [tag |-> "text", text |-> t]

(***************************************************************************)
(* The string-returning tools (src/src/tools.py)                           *)
(***************************************************************************)
\* try: return format_job_results(..) except Exception as e: return f"...{e}"
ToolOutput(results, query_type, error_prefix) ==
    IF results.tag = "exc" THEN Text(error_prefix \o results.msg)
    ELSE format_job_results(results.val, query_type)

\* tools.get_sample_lca_data
get_sample_lca_data(limit_str, env, k) ==
    [out |-> ToolOutput(get_sample_joined_data(StoreCall(env, k, "lca")),
                        "sample LCA jobs", "Error fetching sample data: "),
     calls |-> <<CallRec("get_sample_joined_data", ToString(ToNumber(limit_str)), env, k)>>]

\* tools.find_jobs_by_city
find_jobs_by_city(city, env, k) ==
    [out |-> ToolOutput(get_filings_by_city(city, StoreCall(env, k, "lca")),
                        "jobs in " \o city, "Error finding jobs in " \o city \o ": "),
     calls |-> <<CallRec("get_filings_by_city", city \o ",20", env, k)>>]

\* tools.find_high_wage_jobs
find_high_wage_jobs(min_wage_str, env, k) ==
    LET min_wage == ToNumber(min_wage_str)
    IN  [out |-> ToolOutput(get_high_wage_jobs(min_wage, 20, StoreCall(env, k, "lca")),
                            "high-wage jobs ($" \o Commas(min_wage) \o "+)",
                            "Error finding high wage jobs: "),
         calls |-> <<CallRec("get_high_wage_jobs", ToString(min_wage) \o ",20", env, k)>>]

(***************************************************************************)
(* The list-returning tools (src/src/langchain_tools.py)                   *)
(***************************************************************************)
\* try: return results except Exception: return []
ListToolOutput(results) == IF results.tag = "exc" THEN Return(<<>>) ELSE results

lc_get_filings_by_city(city, resp) == ListToolOutput(get_filings_by_city(city, resp))

lc_get_high_wage_jobs(min_wage, limit, resp) ==
    ListToolOutput(get_high_wage_jobs(min_wage, limit, resp))

lc_get_jobs_by_company(resp) == ListToolOutput(get_jobs_by_company(resp))

lc_get_jobs_by_title(resp) == ListToolOutput(get_jobs_by_title(resp))

lc_get_sample_joined_data(resp) == ListToolOutput(get_sample_joined_data(resp))

(***************************************************************************)
(* run_agent_query (src/src/agent.py)                                      *)
(***************************************************************************)
AllFailedApology ==
    Text("Sorry, all agent systems failed. Please try a simpler query like 'Show me sample jobs' or 'Jobs in San Francisco'.")

\* the acceptance test without its check for error-flagged output
AgentOutputValid_ErrorsAccepted(result) ==
    /\ result # ""
    /\ strip(result) # ""
    /\ ~(\/ (Contains(lower(result), "thought:") /\ Contains(lower(result), "action:"))
         \/ StartsWithAt(strip(result), 1, "Thought:"))

\* the agent loop's output is accepted as the answer
AgentOutputValid(result) ==
    /\ result # ""
    /\ strip(result) # ""
    /\ ~Contains(lower(result), "error")
    /\ ~(\/ (Contains(lower(result), "thought:") /\ Contains(lower(result), "action:"))
         \/ StartsWithAt(strip(result), 1, "Thought:"))

\* from working_agent import WorkingLCAAgent: the repository has no module
\* DataService.get_sample_joined_data_async: the synchronous fetch run in the
\* executor, its result awaited and its exception logged and raised again
get_sample_joined_data_async(resp) ==
    LET Awaited(result) ==
            IF result.tag = "exc" THEN Raise(result.msg) ELSE Return(result.val)
    IN  Awaited(get_sample_joined_data(resp))

\* tools.get_sample_lca_data_async
get_sample_lca_data_async(limit_str, env, k) ==
    [out |-> ToolOutput(get_sample_joined_data_async(StoreCall(env, k, "lca")),
                        "sample LCA jobs", "Error fetching sample data: "),
     calls |-> <<CallRec("get_sample_joined_data", ToString(ToNumber(limit_str)), env, k)>>]

\* tools.find_jobs_by_city_async: DataService has no get_filings_by_city_async,
\* the attribute lookup raises before any store call
find_jobs_by_city_async(city, env, k) ==
    [out |-> ToolOutput(Raise("'DataService' object has no attribute 'get_filings_by_city_async'"),
                        "jobs in " \o city, "Error finding jobs in " \o city \o ": "),
     calls |-> <<>>]

\* working_agent, the import raises
working_agent(query) == Raise("No module named 'working_agent'")

\* the final fallback: direct tool usage
direct_tools(query, text, env, k) ==
    LET query_lower == text.query_lower
        wage == text.wage
    IN  IF wage # None THEN find_high_wage_jobs(wage.text, env, k)
        ELSE IF Contains(query_lower, "sample") THEN get_sample_lca_data("5", env, k)
        ELSE IF Contains(query_lower, "san francisco")
             THEN find_jobs_by_city("San Francisco", env, k)
        ELSE IF Contains(query_lower, "chicago") THEN find_jobs_by_city("Chicago", env, k)
        ELSE IF Contains(query_lower, "high") \/ Contains(query_lower, "120")
             THEN find_high_wage_jobs("120000", env, k)
        ELSE get_sample_lca_data("10", env, k)

\* run_agent_query: out is the returned string, tier the tier that produced it
run_agent_query(query, text, env, k) ==
    LET working == working_agent(query)
        \* lines 254-287: the answer of the direct tools, or the apology
        Final(final) ==
            IF final.out.tag = "exc"
            THEN [out |-> AllFailedApology, calls |-> final.calls, tier |-> "apology"]
            ELSE [out |-> final.out, calls |-> final.calls, tier |-> "direct_tools"]
    IN  IF env.agent.tag = "ok" /\ AgentOutputValid(env.agent.val)
        THEN [out |-> Text(env.agent.val), calls |-> <<>>, tier |-> "agent_loop"]
        ELSE IF working.tag = "ok"
        THEN [out |-> working.val, calls |-> <<>>, tier |-> "working_agent"]
        ELSE Final(direct_tools(query, text, env, k))


(***************************************************************************)
(* ImmigrationAgent (src/src/immigration_agent.py)                         *)
(***************************************************************************)
\* _format_section
format_section(section_title, results, visa_label) ==
    [title |-> section_title, found |-> Len(results),
     entries |-> [i \in 1..Min(PresentationCap, Len(results)) |->
                     Entry(i, results[i], visa_label)],
     more |-> IF Len(results) > PresentationCap
              THEN Len(results) - PresentationCap ELSE 0]

DataErrorText ==
    Text("Sorry, I encountered an error retrieving the data. Please try a more specific query.")

\* the two fetches of one branch with the LCA fetch tried once more after it
\* failed
TwoSections_RetriesLca(lca, lcaCall, perm, permCall, lcaTitle, permTitle) ==
    IF lca.tag = "exc" THEN [out |-> DataErrorText, calls |-> <<lcaCall, lcaCall>>]
    ELSE IF perm.tag = "exc" THEN [out |-> DataErrorText, calls |-> <<lcaCall, permCall>>]
    ELSE [out |-> [tag |-> "sections",
                   lca |-> format_section(lcaTitle, lca.val, "H-1B"),
                   perm |-> format_section(permTitle, perm.val, "PERM")],
          calls |-> <<lcaCall, permCall>>]

\* the two fetches of one branch of _get_relevant_data and its two sections;
\* the PERM fetch is issued only after the LCA fetch returned
TwoSections(lca, lcaCall, perm, permCall, lcaTitle, permTitle) ==
    IF lca.tag = "exc" THEN [out |-> DataErrorText, calls |-> <<lcaCall>>]
    ELSE IF perm.tag = "exc" THEN [out |-> DataErrorText, calls |-> <<lcaCall, permCall>>]
    ELSE [out |-> [tag |-> "sections",
                   lca |-> format_section(lcaTitle, lca.val, "H-1B"),
                   perm |-> format_section(permTitle, perm.val, "PERM")],
          calls |-> <<lcaCall, permCall>>]

\* _get_relevant_data
get_relevant_data(context, env, k) ==
    LET lcaResp == StoreCall(env, k, "lca")
        permResp == StoreCall(env, k + 1, "perm")
        city == context.location_focus
        company == context.company_specific
    IN  IF city # None
        THEN TwoSections(get_filings_by_city(city.text, lcaResp),
                         CallRec("get_filings_by_city", city.text \o ",30", env, k),
                         get_perm_by_city(permResp),
                         CallRec("get_perm_by_city", city.text \o ",30", env, k + 1),
                         "Recent H-1B Filings (LCA Data)",
                         "Recent Green Card Filings (PERM Data)")
        ELSE IF company # None
        THEN TwoSections(get_jobs_by_company(lcaResp),
                         CallRec("get_jobs_by_company", company.text \o ",30", env, k),
                         get_perm_by_company(permResp),
                         CallRec("get_perm_by_company", company.text \o ",30", env, k + 1),
                         "Recent H-1B Filings (LCA Data)",
                         "Recent Green Card Filings (PERM Data)")
        ELSE IF context.salary_concern
        THEN TwoSections(get_high_wage_jobs(100000, 30, lcaResp),
                         CallRec("get_high_wage_jobs", "100000,30", env, k),
                         get_perm_high_wage_jobs(100000, 30, permResp),
                         CallRec("get_perm_high_wage_jobs", "100000,30", env, k + 1),
                         "High-wage H-1B Filings (LCA Data)",
                         "High-wage Green Card Filings (PERM Data)")
        ELSE TwoSections(get_sample_joined_data(lcaResp),
                         CallRec("get_sample_joined_data", "10", env, k),
                         get_sample_perm_data(permResp),
                         CallRec("get_sample_perm_data", "10", env, k + 1),
                         "Recent H-1B Filings (LCA Data)",
                         "Recent Green Card Filings (PERM Data)")

\* provide_immigration_guidance: header, data and advice, joined
provide_immigration_guidance(query, text, env, k) ==
    LET context == text.context
        Guidance(data) ==
            [out |-> [tag |-> "guidance", header |-> context.visa_stage,
                      data |-> data.out,
                      advice |-> IF context.visa_stage = "general" THEN ""
                                 ELSE context.visa_stage],
             calls |-> data.calls]
    IN  Guidance(get_relevant_data(context, env, k))

\* f"{v:.0f}" of the quotient num / den of two whole numbers: to the nearest
\* whole number, a tie to the even one
RoundHalfEven(num, den) ==
    LET q == num \div den
        r == num % den
    IN  IF 2 * r < den THEN q
        ELSE IF 2 * r > den THEN q + 1
        ELSE IF q % 2 = 0 THEN q ELSE q + 1

\* the recommendation that opens with "Weak" whatever the H-1B count
\* the recommendation with the PERM test of its first tier turned round
get_company_recommendation_FewPerm(h1b_count, perm_count) ==
    IF h1b_count >= 21 /\ perm_count <= 11
    THEN "Strong sponsor ~ Consistent H-1B + PERM history"
    ELSE IF h1b_count >= 11 /\ perm_count >= 6
    THEN "Good option ~ Solid H-1B and active green card pathway"
    ELSE IF h1b_count >= 6 /\ perm_count >= 1
    THEN "Mixed ~ H-1B present, limited green card activity"
    ELSE IF h1b_count >= 1
    THEN "Weak ~ H-1B activity but little/no green card history"
    ELSE "Not recommended ~ No visible immigration sponsorship"

\* the recommendation without its last tier
get_company_recommendation_NoFloor(h1b_count, perm_count) ==
    IF h1b_count >= 21 /\ perm_count >= 11
    THEN "Strong sponsor ~ Consistent H-1B + PERM history"
    ELSE IF h1b_count >= 11 /\ perm_count >= 6
    THEN "Good option ~ Solid H-1B and active green card pathway"
    ELSE IF h1b_count >= 6 /\ perm_count >= 1
    THEN "Mixed ~ H-1B present, limited green card activity"
    ELSE "Weak ~ H-1B activity but little/no green card history"

\* _get_company_recommendation (the leading symbol of each text left out)
get_company_recommendation(h1b_count, perm_count) ==
    IF h1b_count >= 21 /\ perm_count >= 11
    THEN "Strong sponsor ~ Consistent H-1B + PERM history"
    ELSE IF h1b_count >= 11 /\ perm_count >= 6
    THEN "Good option ~ Solid H-1B and active green card pathway"
    ELSE IF h1b_count >= 6 /\ perm_count >= 1
    THEN "Mixed ~ H-1B present, limited green card activity"
    ELSE IF h1b_count >= 1
    THEN "Weak ~ H-1B activity but little/no green card history"
    ELSE "Not recommended ~ No visible immigration sponsorship"

\* get_company_immigration_profile, given the outcomes of its two store
\* calls: the report by its sections and lines, or the apology of its
\* except branch
get_company_immigration_profile(company_name, lcaResp, permResp) ==
    LET \* _avg_wage: None, or the sum and the number of the positive wages
        avg_wage(jobs) ==
            LET wages == SelectSeq([i \in 1..Len(jobs) |-> GetWage(jobs[i])],
                                   LAMBDA w : w # NoWage /\ w > 0)
                sum[i \in 0..Len(wages)] == IF i = 0 THEN 0 ELSE sum[i - 1] + wages[i]
            IN  IF wages = <<>> THEN None
                ELSE [tag |-> "mean", sum |-> sum[Len(wages)], n |-> Len(wages)]
        \* _fmt_money
        fmt_money(v) ==
            IF v # None /\ v.sum > 0 THEN "$" \o Commas(RoundHalfEven(v.sum, v.n))
            ELSE NotSpecified
        \* _rating
        rating(label_count, good_thresh, great_thresh) ==
            IF label_count >= great_thresh THEN "Excellent"
            ELSE IF label_count >= good_thresh THEN "Good"
            ELSE IF label_count > 0 THEN "Limited"
            ELSE "None"
        \* f"{x:.1f}%" of x = total_perm / total_h1b * 100
        percent(total_perm, total_h1b) ==
            LET tenths == RoundHalfEven(1000 * total_perm, total_h1b)
            IN  ToString(tenths \div 10) \o "." \o ToString(tenths % 10) \o "%"
        Failed(e) ==
            Text("Sorry, I couldn't analyze the immigration profile for "
                 \o company_name \o ". Error: " \o e.msg)
        Profile(lca_jobs, perm_jobs) ==
            LET total_h1b == Len(lca_jobs)
                total_perm == Len(perm_jobs)
            IN  [tag |-> "profile", company |-> title(company_name),
                 h1b |-> [title |-> "H-1B Sponsorship",
                          total |-> IF total_h1b > 0 THEN ToString(total_h1b)
                                    ELSE NotSpecified,
                          avg_wage |-> fmt_money(avg_wage(lca_jobs)),
                          rating |-> rating(total_h1b, 6, 21)],
                 perm |-> [title |-> "Green Card (PERM) Sponsorship",
                           total |-> IF total_perm > 0 THEN ToString(total_perm)
                                     ELSE NotSpecified,
                           avg_wage |-> fmt_money(avg_wage(perm_jobs)),
                           rating |-> rating(total_perm, 3, 11)],
                 conv_rate |-> IF total_h1b > 0 THEN percent(total_perm, total_h1b)
                               ELSE NotSpecified,
                 overall |-> IF total_perm > 10 /\ total_h1b > 20 THEN "Excellent"
                             ELSE IF total_perm > 2 \/ total_h1b > 10 THEN "Good"
                             ELSE "Limited",
                 recommendation |-> get_company_recommendation(total_h1b, total_perm)]
        Fetched(lca, perm) ==
            IF lca.tag = "exc" THEN Failed(lca)
            ELSE IF perm.tag = "exc" THEN Failed(perm)
            ELSE Profile(lca.val, perm.val)
    IN  Fetched(get_jobs_by_company(lcaResp), get_perm_by_company(permResp))

(***************************************************************************)
(* The source-lookup collaborators (src/src/web_sources.py) and the FAQ    *)
(* answers of EnhancedImmigrationAgent                                     *)
(***************************************************************************)
Source(source_title, url, snippet) ==
    [title |-> source_title, url |-> url, snippet |-> snippet]

RECURSIVE SpacesToPlus(_)
\* re.sub(r"\s+", "+", name)
SpacesToPlus(s) ==
    IF s = "" THEN ""
    ELSE IF IsSpace(Ch(s, 1)) THEN "+" \o SpacesToPlus(lstrip(s))
    ELSE Ch(s, 1) \o SpacesToPlus(Tail(s))

\* get_top_h1b_companies_2025: with the page fetched the function runs off
\* its end and returns None
get_top_h1b_companies_2025(fetch_ok) ==
    IF ~fetch_ok
    THEN [tag |-> "list",
          val |-> <<Source("MyVisaJobs Reports", "https://www.myvisajobs.com/reports/h1b/",
                           "Could not fetch report page.")>>]
    ELSE None

\* get_h1b_majors_study
get_h1b_majors_study(fetch_ok) ==
    IF fetch_ok
    THEN <<Source("arXiv", "https://arxiv.org/", "Academic studies on H-1B/LCA trends")>>
    ELSE <<Source("arXiv", "https://arxiv.org/", "Search for H-1B approval rate by major")>>

\* get_school_sponsors_links
get_school_sponsors_links(university) ==
    LET uni_q == SpacesToPlus(strip(university))
    IN  <<Source("MyVisaJobs University Search",
                 "https://www.myvisajobs.com/University/" \o uni_q \o "/", ""),
          Source("Google: MyVisaJobs {university}",
                 "https://www.google.com/search?q=site:myvisajobs.com+" \o uni_q \o "+LCA",
                 "")>>

\* get_company_h1b_links
get_company_h1b_links(company) ==
    LET comp_q == SpacesToPlus(strip(company))
    IN  <<Source("MyVisaJobs Employer Search",
                 "https://www.myvisajobs.com/Employer/" \o comp_q \o "/", ""),
          Source("H1BGrader Employer Search",
                 "https://h1bgrader.com/employer/" \o comp_q, ""),
          Source("Google: Employer H-1B LCAs",
                 "https://www.google.com/search?q=site:myvisajobs.com+" \o comp_q
                 \o "+H-1B+petitions", "")>>

\* the answer text: its heading, its bullet lines and the "Sources:" list
FaqAnswer(heading, bullets, sources) ==
    [tag |-> "faq_answer", heading |-> heading, bullets |-> bullets, sources |-> sources]

\* _answer_faq_with_sources: the answer, or the exception it raises
answer_faq_with_sources(faq, fetch_ok) ==
    IF faq.intent = "top_h1b_companies_2025"
    THEN LET srcs == get_top_h1b_companies_2025(fetch_ok)
         IN  IF srcs = None THEN Raise("'NoneType' object is not iterable")
             ELSE Return(FaqAnswer("Top H-1B Petitioners (FY 2025)",
                     <<"This summary lists leading petitioners for FY 2025.">>, srcs.val))
    ELSE IF faq.intent = "majors_approval"
    THEN Return(FaqAnswer("Majors With Higher H-1B Certification Odds",
             <<"Studies suggest CS/STEM and PhD holders have higher certification rates.",
               "Lower odds observed for associate degrees and some non-STEM fields.">>,
             [i \in 1..Len(get_h1b_majors_study(fetch_ok)) |->
                 Source(get_h1b_majors_study(fetch_ok)[i].title,
                        get_h1b_majors_study(fetch_ok)[i].url, "")]))
    ELSE IF faq.intent = "school_sponsors"
    THEN LET univ == strip(faq.arg)
         IN  Return(FaqAnswer("School H-1B Sponsorships",
                 <<IF univ = ""
                   THEN "Please share your university (e.g., 'University of Michigan')."
                   ELSE "School: " \o univ,
                   "Use these sources to view recent LCA filings and sponsors.">>,
                 get_school_sponsors_links(IF univ # "" THEN univ ELSE "your university")))
    ELSE IF faq.intent = "company_counts"
    THEN LET comp == strip(faq.arg)
         IN  Return(FaqAnswer("Employer H-1B Petition Counts",
                 <<IF comp = "" THEN "Please provide the company legal name."
                   ELSE "Company: " \o comp,
                   "Use these to view recent annual counts (MyVisaJobs) and multi-year totals (H1BGrader).">>,
                 get_company_h1b_links(IF comp # "" THEN comp ELSE "your company")))
    ELSE Return(Text("No FAQ handler matched."))


(***************************************************************************)
(* EnhancedImmigrationAgent.process_query                                  *)
(* (src/src/immigration_main_agent.py)                                     *)
(***************************************************************************)
\* what a handler leaves behind: its outcome, the store calls it issued and
\* the list it handed to format_job_results (None: it formatted nothing)
Handled(out, calls, formatted) == [out |-> out, calls |-> calls, formatted |-> formatted]

ListOf(records) == [tag |-> "list", val |-> records]

\* the test that keeps every record with a visa class, whatever the class
VisaMatches_AnyClass(visa, j) ==
    GetText(j, "visa_class") # NoText /\ strip(GetText(j, "visa_class")) # ""

\* the test of the visa handler's loop on one record j
VisaMatches(visa, j) ==
    LET v == IF GetText(j, "visa_class") = NoText THEN ""
             ELSE strip(GetText(j, "visa_class"))
    IN  /\ v # ""
        /\ \/ visa = "H-1B" /\ Contains(lower(v), "h-1b")
           \/ visa = "PERM" /\ (Contains(lower(v), "perm") \/ Contains(lower(v), "green card"))
           \/ visa = "E-3" /\ (Contains(lower(v), "e-3") \/ Contains(lower(v), "e3"))

\* the body of the try block of the visa-class handler
visa_handler(visa, env, k) ==
    LET calls == <<CallRec("get_sample_joined_data", "200", env, k)>>
        Formatted(filt) ==
            Handled(Return(format_job_results(filt, visa \o " jobs")), calls, ListOf(filt))
        Filtered(sample) ==
            IF sample.tag = "exc" THEN Handled(sample, calls, None)
            ELSE Formatted(SelectSeq(sample.val, LAMBDA j : VisaMatches(visa, j)))
    IN  Filtered(get_sample_joined_data(StoreCall(env, k, "lca")))

\* the at-most test without its lower bound
WageAtMost_ZeroIncluded(j, wage) ==
    LET w == IF GetWage(j) = NoWage THEN 0 ELSE GetWage(j)
    IN  w <= wage

\* 0 < (j.get('wage') or 0) <= wage
WageAtMost(j, wage) ==
    LET w == IF GetWage(j) = NoWage THEN 0 ELSE GetWage(j)
    IN  0 < w /\ w <= wage

\* the body of the try block of the wage handler
wage_handler(wage_info, env, k) ==
    LET \* lines 65-67: the at-least branch
        AtLeast(results) ==
            LET calls == <<CallRec("get_high_wage_jobs",
                                   ToString(wage_info.val) \o ",40", env, k)>>
            IN  IF results.tag = "exc" THEN Handled(results, calls, None)
                ELSE Handled(Return(format_job_results(results.val,
                                        "jobs ($>=" \o Commas(wage_info.val) \o ")")),
                             calls, ListOf(results.val))
        \* lines 69-76: the at-most branch, filtering the sample
        Formatted(results, calls) ==
            Handled(Return(format_job_results(results,
                               "jobs ($<=" \o Commas(wage_info.val) \o ")")),
                    calls, ListOf(results))
        AtMost(sample) ==
            LET calls == <<CallRec("get_sample_joined_data", "200", env, k)>>
            IN  IF sample.tag = "exc" THEN Handled(sample, calls, None)
                ELSE Formatted(SelectSeq(sample.val,
                                   LAMBDA j : WageAtMost(j, wage_info.val)), calls)
    IN  IF wage_info.op = "gte"
        THEN AtLeast(get_high_wage_jobs(wage_info.val, 40, StoreCall(env, k, "lca")))
        ELSE AtMost(get_sample_joined_data(StoreCall(env, k, "lca")))

NoResultApology ==
    Text("Sorry, I couldn't produce a result. Try a simpler query like 'High-paying jobs $120k+'.")

\* not result or not str(result).strip()
IsBlank(result) == result.tag = "text" /\ strip(result.text) = ""

\* the routing after the three fast paths: guidance or the agent fallback
general_routing(query, text, env, k) ==
    LET Guided(g) ==
            [out |-> Return(g.out), calls |-> g.calls, handler |-> "guidance",
             tier |-> "none"]
        Answered(a) ==
            IF IsBlank(a.out)
            THEN LET working == working_agent(query)
                 IN  [out |-> IF working.tag = "exc" THEN Return(NoResultApology)
                              ELSE working,
                      calls |-> a.calls, handler |-> "agent", tier |-> a.tier]
            ELSE [out |-> Return(a.out), calls |-> a.calls, handler |-> "agent",
                  tier |-> a.tier]
    IN  IF text.immigration
        THEN Guided(provide_immigration_guidance(query, text, env, k))
        ELSE Answered(run_agent_query(query, text, env, k))

\* the handlers called without their try block
HandlerCompletes_NoTry(run) == TRUE

\* the handlers' results dropped instead of returned
HandlerCompletes_NoReturn(run) == FALSE

\* try: return <handler> / except Exception: continue to the other handlers
HandlerCompletes(run) == run.out.tag = "ok"

\* the entry a handler leaves in the trace of the call
Ran(name, run) == [name |-> name, completed |-> run.out.tag = "ok", out |-> run.out]

\* process_query.  out is what the call returns or raises and by the handler
\* that produced it; handlers lists the handlers that ran, in the order they
\* ran, calls the store calls they issued, formatted the list given to
\* format_job_results, tier the tier of run_agent_query that answered.
process_query(query, text, env) ==
    LET faq == text.faq
        visa == text.visa
        wage_info == text.wage_info
        \* lines 82-110: general routing, reached with the trace h3 and calls c3
        Routed(h3, c3, rest) ==
            [out |-> rest.out, by |-> rest.handler,
             handlers |-> h3 \o <<Ran(rest.handler, rest)>>,
             calls |-> c3 \o rest.calls, formatted |-> None, tier |-> rest.tier]
        \* lines 63-80: the wage fast path, its handler's run being wageRun
        AfterWage(h2, c2, wageRun) ==
            LET h3 == IF wage_info # None THEN h2 \o <<Ran("wage", wageRun)>> ELSE h2
                c3 == IF wage_info # None THEN c2 \o wageRun.calls ELSE c2
            IN  IF wage_info # None /\ HandlerCompletes(wageRun)
                THEN [out |-> wageRun.out, by |-> "wage", handlers |-> h3, calls |-> c3,
                      formatted |-> wageRun.formatted, tier |-> "none"]
                ELSE Routed(h3, c3, general_routing(query, text, env, Len(c3) + 1))
        \* lines 55-61: the visa fast path, its handler's run being visaRun
        AfterVisa(h1, visaRun) ==
            LET h2 == IF visa # None THEN h1 \o <<Ran("visa", visaRun)>> ELSE h1
                c2 == IF visa # None THEN visaRun.calls ELSE <<>>
            IN  IF visa # None /\ HandlerCompletes(visaRun)
                THEN [out |-> visaRun.out, by |-> "visa", handlers |-> h2, calls |-> c2,
                      formatted |-> visaRun.formatted, tier |-> "none"]
                ELSE AfterWage(h2, c2, wage_handler(wage_info, env, Len(c2) + 1))
        \* lines 45-53: the FAQ fast path, its handler's run being faqRun
        AfterFaq(faqRun) ==
            LET h1 == IF faq # None THEN <<Ran("faq", faqRun)>> ELSE <<>>
            IN  IF faq # None /\ HandlerCompletes(faqRun)
                THEN [out |-> faqRun.out, by |-> "faq", handlers |-> h1, calls |-> <<>>,
                      formatted |-> None, tier |-> "none"]
                ELSE AfterVisa(h1, visa_handler(visa.class, env, 1))
    IN  AfterFaq(Handled(answer_faq_with_sources(faq, env.fetch_ok), <<>>, None))


(***************************************************************************)
(* The store client (src/src/config/supabase_client.py)                    *)
(* A client handle carries the number of the create_client call that      *)
(* returned it; g is the module global _client, n the number of handles    *)
(* made so far                                                             *)
(***************************************************************************)
\* _client is None
NoClient == None

\* the client the k-th successful create_client call returned
Handle(k) == [tag |-> "client", id |-> k]

\* what one construction meets: the environment variables are set and
\* create_client returns, a variable is missing, or create_client raises
ConstructionOutcomes == {"ok", "missing_env", "create_failed"}

\* get_supabase_client: a new handle, or the error re-raised
get_supabase_client(outcome, n) ==
    CASE outcome = "ok" -> Return(Handle(n + 1))
      [] outcome = "missing_env" -> Raise("Missing required environment variables")
      [] outcome = "create_failed" -> Raise("create_client failed")

\* get_client that marks the handle as set before the construction returns
get_client_CachesFailure(g, outcome, n) ==
    LET Built(c) == [out |-> c, client |-> Handle(n + 1),
                     created |-> IF c.tag = "ok" THEN n + 1 ELSE n,
                     attempts |-> 1,
                     failures |-> IF c.tag = "ok" THEN 0 ELSE 1]
    IN  IF g = NoClient THEN Built(get_supabase_client(outcome, n))
        ELSE [out |-> Return(g), client |-> g, created |-> n, attempts |-> 0,
              failures |-> 0]

\* get_client: out is what the call returns or raises, client the value of
\* _client after it, created the number of handles made so far, attempts the
\* constructions the call tried and failures those of them that raised
\* inside get_client
get_client(g, outcome, n) ==
    LET Built(c) == [out |-> c, client |-> IF c.tag = "ok" THEN c.val ELSE g,
                     created |-> IF c.tag = "ok" THEN n + 1 ELSE n,
                     attempts |-> 1,
                     failures |-> IF c.tag = "ok" THEN 0 ELSE 1]
    IN  IF g = NoClient THEN Built(get_supabase_client(outcome, n))
        ELSE [out |-> Return(g), client |-> g, created |-> n, attempts |-> 0,
              failures |-> 0]

\* DataService.__init__: self.client = client or get_client()
DataService(clientArg, g, outcome, n) ==
    LET Got(c) == [out |-> IF c.out.tag = "ok" THEN Return([client |-> c.out.val])
                           ELSE c.out,
                   client |-> c.client, created |-> c.created,
                   attempts |-> c.attempts, failures |-> c.failures]
    IN  IF clientArg # NoClient
        THEN [out |-> Return([client |-> clientArg]), client |-> g, created |-> n,
              attempts |-> 0, failures |-> 0]
        ELSE Got(get_client(g, outcome, n))

\* main_agent.initialize_services: a client of its own to test the
\* connection, then DataService() and one sample fetch; None on any error
initialize_services(g, first, second, sample, n) ==
    LET Tested(service) ==
            [out |-> IF service.out.tag = "exc" \/ sample.tag = "exc" THEN Return(None)
                     ELSE service.out,
             client |-> service.client, created |-> service.created,
             attempts |-> 1 + service.attempts, failures |-> service.failures]
        Connected(c) ==
            IF c.tag = "exc"
            THEN [out |-> Return(None), client |-> g, created |-> n, attempts |-> 1,
                  failures |-> 0]
            ELSE Tested(DataService(NoClient, g, second, n + 1))
    IN  Connected(get_supabase_client(first, n))


(***************************************************************************)
(* The environments the operations meet                                    *)
(***************************************************************************)
AgentOutputs ==
    {"", "  ", "Found 3 jobs in Austin", "Error: tool failed", "An ERROR occurred",
     "Thought: I should use a tool\nAction: get_sample_lca_data", "Thought: hmm",
     "  Thought: done", "my thought: x; action: y", "One thought: none",
     "Action: get_sample_lca_data"}

AgentOutcomes == {Raise("agent stopped")} \cup {Return(o) : o \in AgentOutputs}

\* the rows lca_filings answers a query's calls with
QueryLcaRows ==
    { <<>>,
      <<LcaRow(1, "H-1B", <<Worksite("Austin", 90000)>>),
        LcaRow(2, "E-3", <<Worksite("Austin", 150000), Worksite("Boston", 150000)>>),
        LcaRow(3, NoText, <<Worksite("Boston", NoWage)>>)>>,
      <<LcaRow(1, "e3 ", <<>>),
        LcaRow(2, "PERM (green card)", <<Worksite("Chicago", 150000)>>),
        LcaRow(3, "h-1b1", <<Worksite("San Francisco", 120000)>>),
        LcaRow(4, "H-1B", <<Worksite("Austin", 150000)>>)>> }

\* the rows perm_disclosure answers a query's calls with
QueryPermRows == { <<>>, <<PermRow(1, 90000), PermRow(2, NoWage), PermRow(3, 150000)>> }

QueryEnvs(agents) ==
    [lca : QueryLcaRows, perm : QueryPermRows, fail : [1..MaxStoreCalls -> BOOLEAN],
     fetch_ok : BOOLEAN, agent : agents]

\* the outcomes of one direct store call on lca_filings asked for n rows
LcaOutcomes(n) ==
    {StoreError} \cup {Return(r) : r \in LcaResponses(Min(n, MaxRows), {"H-1B"}, WorksiteLists)}

\* the outcomes of one direct store call on perm_disclosure asked for n rows
PermOutcomes(n) ==
    {StoreError} \cup {Return(r) : r \in PermResponses(Min(n, MaxRows), PermWages)}

\* the outcomes of the two store calls of one combined fetch
CombinedLcaOutcomes(n) ==
    {StoreError} \cup
    {Return(r) : r \in LcaResponses(Min(n, MaxRows - 1), {"H-1B"},
                                    { <<Worksite("Austin", 90000)>>,
                                      <<Worksite("Boston", NoWage)>>,
                                      <<Worksite("Austin", 150000),
                                        Worksite("Boston", 150000)>> })}

CombinedPermOutcomes(n) ==
    {StoreError} \cup
    {Return(r) : r \in PermResponses(Min(n, MaxRows - 1), {NoWage, 90000, 150000})}

\* the needles of the city fetches on either dataset: both cities of the
\* rows contain "ST" when case is ignored
AccessCities == {"Austin", "bos", "ST"}

\* a row of perm_disclosure with its worksite city
PermRowIn(k, city) == [PermRow(k, 90000) EXCEPT !.worksite_city = city]

\* the outcomes of one store call on perm_disclosure filtered by city and
\* asked for n rows; the remote filter is not relied upon
PermCityOutcomes(n) ==
    {StoreError} \cup
    UNION { { Return([k \in 1..m |-> PermRowIn(k, f[k])]) :
                f \in [1..m -> {"Austin", "Boston", NoText}] } : m \in 0..Min(n, MaxRows) }

\* the largest filing count the recommendation is asked about
MaxCount == 22

\* the handles one process may make and the get_client calls that may fail
MaxClients == 2

MaxFailures == 2

\* the needles of the city fetches
Cities == {"Austin", "bos"}

\* the outcomes of the PERM fetch of one company profile
ProfilePermOutcomes ==
    {StoreError} \cup {Return(r) : r \in PermResponses(MaxRows, {NoWage, 0, 90001, 150000})}

\* the longest list handed to format_job_results on its own
MaxFormatted == 12

\* the city and state values of the records handed to format_job_results
FormatCities == {NoText, "", " \n ", "Austin", " New   York "}

FormatStates == {NoText, "  ", "TX", " NY "}

\* the i-th record of a list handed to format_job_results
FormatRecord(i, city, state, wage) ==
    [case_number |-> i, company |-> "Co " \o ToString(i), job_title |-> "Engineer",
     city |-> city, state |-> state, wage |-> wage, visa_class |-> "H-1B"]

(***************************************************************************)
(* The state machine: the process takes one call at a time (pc = "ready"), *)
(* runs it to its end (pc = "done") and hands the result to the caller.    *)
(*   call  the operation and its arguments, with the environment it met    *)
(*   ret   what the operation returned or raised                           *)
(*   obs   for process_query and run_agent_query: what ran on the way      *)
(***************************************************************************)
\* client is the module global _client of supabase_client.py, created the
\* number of handles create_client has returned in this process and failures
\* the number of get_client calls whose construction raised
VARIABLES pc, call, ret, obs, client, created, failures

vars == <<pc, call, ret, obs, client, created, failures>>

NoCall == [op |-> "none"]

Init ==
    /\ pc = "ready"
    /\ call = NoCall
    /\ ret = None
    /\ obs = None
    /\ client = NoClient
    /\ created = 0
    /\ failures = 0

\* the matcher calls of process_query (lines 46, 56, 78), on the raw query
MatchIntents ==
    /\ pc = "ready"
    /\ \E query \in MatcherQueries :
          /\ call' = [op |-> "match_intents", query |-> query]
          /\ ret' = [faq |-> extract_faq_intent(query), visa |-> extract_visa(query),
                     wage |-> extract_wage(query)]
    /\ obs' = None
    /\ pc' = "done"
    /\ UNCHANGED <<client, created, failures>>

ProcessQuery ==
    /\ pc = "ready"
    /\ \E query \in Queries : \E text \in {Analysed[query]} :
          \E env \in QueryEnvs({Raise("agent stopped"), Return("Found 3 jobs in Austin"),
                                Return("Thought: hmm")}) :
             \E r \in {process_query(query, text, env)} :
                /\ call' = [op |-> "process_query", query |-> query, env |-> env]
                /\ ret' = r.out
                /\ obs' = r
    /\ pc' = "done"
    /\ UNCHANGED <<client, created, failures>>

RunAgentQuery ==
    /\ pc = "ready"
    /\ \E query \in AgentQueries : \E text \in {Analysed[query]} :
          \E agent \in AgentOutcomes : \E lca \in QueryLcaRows : \E failed \in BOOLEAN :
             LET env == [lca |-> lca, perm |-> <<>>,
                         fail |-> [k \in 1..MaxStoreCalls |-> failed],
                         fetch_ok |-> FALSE, agent |-> agent]
             IN  \E r \in {run_agent_query(query, text, env, 1)} :
                    /\ call' = [op |-> "run_agent_query", query |-> query, env |-> env]
                    /\ ret' = Return(r.out)
                    /\ obs' = r
    /\ pc' = "done"
    /\ UNCHANGED <<client, created, failures>>

GetHighWageJobs ==
    /\ pc = "ready"
    /\ \E min_wage \in Thresholds : \E limit \in 1..MaxLimit :
          \E resp \in LcaOutcomes(2 * limit) :
             /\ call' = [op |-> "get_high_wage_jobs", min_wage |-> min_wage,
                         limit |-> limit, lca |-> resp, perm |-> None]
             /\ ret' = get_high_wage_jobs(min_wage, limit, resp)
    /\ obs' = None
    /\ pc' = "done"
    /\ UNCHANGED <<client, created, failures>>

GetPermHighWageJobs ==
    /\ pc = "ready"
    /\ \E min_wage \in Thresholds : \E limit \in 1..MaxLimit :
          \E resp \in PermOutcomes(2 * limit) :
             /\ call' = [op |-> "get_perm_high_wage_jobs", min_wage |-> min_wage,
                         limit |-> limit, lca |-> None, perm |-> resp]
             /\ ret' = get_perm_high_wage_jobs(min_wage, limit, resp)
    /\ obs' = None
    /\ pc' = "done"
    /\ UNCHANGED <<client, created, failures>>

GetAllHighWageJobs ==
    /\ pc = "ready"
    /\ \E min_wage \in Thresholds : \E limit \in 2..(2 * MaxLimit) :
          \E lca \in CombinedLcaOutcomes(2 * (limit \div 2)) :
             \E perm \in CombinedPermOutcomes(2 * (limit \div 2)) :
                /\ call' = [op |-> "get_all_high_wage_jobs", min_wage |-> min_wage,
                            limit |-> limit, lca |-> lca, perm |-> perm]
                /\ ret' = get_all_high_wage_jobs(min_wage, limit, lca, perm)
    /\ obs' = None
    /\ pc' = "done"
    /\ UNCHANGED <<client, created, failures>>

GetSampleJoinedData ==
    /\ pc = "ready"
    /\ \E limit \in 1..MaxLimit : \E resp \in LcaOutcomes(limit) :
          /\ call' = [op |-> "get_sample_joined_data", limit |-> limit, lca |-> resp,
                      perm |-> None]
          /\ ret' = get_sample_joined_data(resp)
    /\ obs' = None
    /\ pc' = "done"
    /\ UNCHANGED <<client, created, failures>>

GetFilingsByCity ==
    /\ pc = "ready"
    /\ \E city \in Cities : \E limit \in 1..MaxLimit : \E resp \in LcaOutcomes(limit) :
          /\ call' = [op |-> "get_filings_by_city", city |-> city, limit |-> limit,
                      lca |-> resp, perm |-> None]
          /\ ret' = get_filings_by_city(city, resp)
    /\ obs' = None
    /\ pc' = "done"
    /\ UNCHANGED <<client, created, failures>>

GetJobsByCompany ==
    /\ pc = "ready"
    /\ \E limit \in 1..MaxLimit : \E resp \in LcaOutcomes(limit) :
          /\ call' = [op |-> "get_jobs_by_company", company |-> "Acme",
                      limit |-> limit, lca |-> resp, perm |-> None]
          /\ ret' = get_jobs_by_company(resp)
    /\ obs' = None
    /\ pc' = "done"
    /\ UNCHANGED <<client, created, failures>>

GetJobsByTitle ==
    /\ pc = "ready"
    /\ \E limit \in 1..MaxLimit : \E resp \in LcaOutcomes(limit) :
          /\ call' = [op |-> "get_jobs_by_title", job_title |-> "Engineer",
                      limit |-> limit, lca |-> resp, perm |-> None]
          /\ ret' = get_jobs_by_title(resp)
    /\ obs' = None
    /\ pc' = "done"
    /\ UNCHANGED <<client, created, failures>>

GetPermByCity ==
    /\ pc = "ready"
    /\ \E city \in AccessCities : \E limit \in 1..MaxLimit :
          \E resp \in PermCityOutcomes(limit) :
             /\ call' = [op |-> "get_perm_by_city", city |-> city, limit |-> limit,
                         lca |-> None, perm |-> resp]
             /\ ret' = get_perm_by_city(resp)
    /\ obs' = None
    /\ pc' = "done"
    /\ UNCHANGED <<client, created, failures>>

\* get_all_jobs_by_city asks each dataset for limit // 2 rows
GetAllJobsByCity ==
    /\ pc = "ready"
    /\ \E city \in AccessCities : \E limit \in 2..(2 * MaxLimit) :
          \E lca \in LcaOutcomes(Min(limit \div 2, MaxRows - 1)) :
             \E perm \in PermCityOutcomes(Min(limit \div 2, MaxRows - 1)) :
                /\ call' = [op |-> "get_all_jobs_by_city", city |-> city,
                            limit |-> limit, lca |-> lca, perm |-> perm]
                /\ ret' = get_all_jobs_by_city(city, lca, perm)
    /\ obs' = None
    /\ pc' = "done"
    /\ UNCHANGED <<client, created, failures>>

GetSampleJoinedDataAsync ==
    /\ pc = "ready"
    /\ \E limit \in 1..MaxLimit : \E resp \in LcaOutcomes(limit) :
          /\ call' = [op |-> "get_sample_joined_data_async", limit |-> limit,
                      lca |-> resp, perm |-> None]
          /\ ret' = get_sample_joined_data_async(resp)
    /\ obs' = None
    /\ pc' = "done"
    /\ UNCHANGED <<client, created, failures>>

\* the async tools of src/src/tools.py, the store answering their one call
\* with resp
ToolGetSampleLcaDataAsync ==
    /\ pc = "ready"
    /\ \E limit \in 1..MaxLimit : \E resp \in LcaOutcomes(limit) :
          \E env \in {[lca |-> IF resp.tag = "ok" THEN resp.val ELSE <<>>,
                        fail |-> [i \in 1..MaxStoreCalls |-> resp.tag = "exc"]]} :
             /\ call' = [op |-> "get_sample_lca_data_async",
                         limit_str |-> ToString(limit), env |-> env]
             /\ ret' = get_sample_lca_data_async(ToString(limit), env, 1).out
    /\ obs' = None
    /\ pc' = "done"
    /\ UNCHANGED <<client, created, failures>>

ToolFindJobsByCityAsync ==
    /\ pc = "ready"
    /\ \E city \in Cities : \E resp \in LcaOutcomes(MaxLimit) :
          \E env \in {[lca |-> IF resp.tag = "ok" THEN resp.val ELSE <<>>,
                        fail |-> [i \in 1..MaxStoreCalls |-> resp.tag = "exc"]]} :
             /\ call' = [op |-> "find_jobs_by_city_async", city |-> city, env |-> env]
             /\ ret' = find_jobs_by_city_async(city, env, 1).out
    /\ obs' = None
    /\ pc' = "done"
    /\ UNCHANGED <<client, created, failures>>

\* the list-returning tools of src/src/langchain_tools.py
ToolGetFilingsByCity ==
    /\ pc = "ready"
    /\ \E city \in Cities : \E limit \in 1..MaxLimit : \E resp \in LcaOutcomes(limit) :
          /\ call' = [op |-> "tool_get_filings_by_city", city |-> city, limit |-> limit,
                      lca |-> resp, perm |-> None]
          /\ ret' = lc_get_filings_by_city(city, resp)
    /\ obs' = None
    /\ pc' = "done"
    /\ UNCHANGED <<client, created, failures>>

ToolGetHighWageJobs ==
    /\ pc = "ready"
    /\ \E min_wage \in Thresholds : \E limit \in 1..MaxLimit :
          \E resp \in LcaOutcomes(2 * limit) :
             /\ call' = [op |-> "tool_get_high_wage_jobs", min_wage |-> min_wage,
                         limit |-> limit, lca |-> resp, perm |-> None]
             /\ ret' = lc_get_high_wage_jobs(min_wage, limit, resp)
    /\ obs' = None
    /\ pc' = "done"
    /\ UNCHANGED <<client, created, failures>>

ToolGetJobsByCompany ==
    /\ pc = "ready"
    /\ \E limit \in 1..MaxLimit : \E resp \in LcaOutcomes(limit) :
          /\ call' = [op |-> "tool_get_jobs_by_company", company |-> "Acme",
                      limit |-> limit, lca |-> resp, perm |-> None]
          /\ ret' = lc_get_jobs_by_company(resp)
    /\ obs' = None
    /\ pc' = "done"
    /\ UNCHANGED <<client, created, failures>>

ToolGetJobsByTitle ==
    /\ pc = "ready"
    /\ \E limit \in 1..MaxLimit : \E resp \in LcaOutcomes(limit) :
          /\ call' = [op |-> "tool_get_jobs_by_title", job_title |-> "Engineer",
                      limit |-> limit, lca |-> resp, perm |-> None]
          /\ ret' = lc_get_jobs_by_title(resp)
    /\ obs' = None
    /\ pc' = "done"
    /\ UNCHANGED <<client, created, failures>>

ToolGetSampleJoinedData ==
    /\ pc = "ready"
    /\ \E limit \in 1..MaxLimit : \E resp \in LcaOutcomes(limit) :
          /\ call' = [op |-> "tool_get_sample_joined_data", limit |-> limit,
                      lca |-> resp, perm |-> None]
          /\ ret' = lc_get_sample_joined_data(resp)
    /\ obs' = None
    /\ pc' = "done"
    /\ UNCHANGED <<client, created, failures>>

GetCompanyImmigrationProfile ==
    /\ pc = "ready"
    /\ \E company_name \in {"acme corp"} : \E lca \in CombinedLcaOutcomes(MaxRows) :
          \E perm \in ProfilePermOutcomes :
             /\ call' = [op |-> "get_company_immigration_profile",
                         company_name |-> company_name, lca |-> lca, perm |-> perm]
             /\ ret' = get_company_immigration_profile(company_name, lca, perm)
    /\ obs' = None
    /\ pc' = "done"
    /\ UNCHANGED <<client, created, failures>>

\* format_job_results called on a list of records
FormatJobResults ==
    /\ pc = "ready"
    /\ \E n \in 0..MaxFormatted : \E city \in FormatCities : \E state \in FormatStates :
          \E wage \in {NoWage, 0, 95000} :
             \E results \in {[i \in 1..n |-> FormatRecord(i, city, state, wage)]} :
                /\ call' = [op |-> "format_job_results", results |-> results,
                            query_type |-> "sample LCA jobs"]
                /\ ret' = format_job_results(results, "sample LCA jobs")
    /\ obs' = None
    /\ pc' = "done"
    /\ UNCHANGED <<client, created, failures>>

\* the hand-over of the result: the process is ready for its next call
\* the process-wide state after a call that went through the client module
ClientStep(run) ==
    /\ ret' = run.out
    /\ obs' = [attempts |-> run.attempts, failures |-> run.failures, before |-> client]
    /\ client' = run.client
    /\ created' = run.created
    /\ failures' = failures + run.failures
    /\ created' <= MaxClients
    /\ failures' <= MaxFailures
    /\ pc' = "done"

GetCompanyRecommendation ==
    /\ pc = "ready"
    /\ \E h1b_count \in 0..MaxCount : \E perm_count \in 0..MaxCount :
          /\ call' = [op |-> "get_company_recommendation", h1b_count |-> h1b_count,
                      perm_count |-> perm_count]
          /\ ret' = get_company_recommendation(h1b_count, perm_count)
    /\ obs' = None
    /\ pc' = "done"
    /\ UNCHANGED <<client, created, failures>>

GetClient ==
    /\ pc = "ready"
    /\ \E outcome \in ConstructionOutcomes :
          \E run \in {get_client(client, outcome, created)} :
             /\ call' = [op |-> "get_client", outcome |-> outcome]
             /\ ClientStep(run)

NewDataService ==
    /\ pc = "ready"
    /\ \E clientArg \in {NoClient} \cup {Handle(k) : k \in 1..created} : \E outcome \in ConstructionOutcomes :
          \E run \in {DataService(clientArg, client, outcome, created)} :
             /\ call' = [op |-> "DataService", client |-> clientArg, outcome |-> outcome]
             /\ ClientStep(run)

InitializeServices ==
    /\ pc = "ready"
    /\ \E first \in ConstructionOutcomes : \E second \in ConstructionOutcomes :
          \E sample \in {StoreError, Return(<<>>)} :
             \E run \in {initialize_services(client, first, second, sample, created)} :
                /\ call' = [op |-> "initialize_services", first |-> first,
                            second |-> second, sample |-> sample]
                /\ ClientStep(run)

Deliver ==
    /\ pc = "done"
    /\ pc' = "ready"
    /\ call' = NoCall
    /\ ret' = None
    /\ obs' = None
    /\ UNCHANGED <<client, created, failures>>

Next ==
    \/ MatchIntents
    \/ ProcessQuery
    \/ RunAgentQuery
    \/ GetHighWageJobs
    \/ GetPermHighWageJobs
    \/ GetAllHighWageJobs
    \/ GetSampleJoinedData
    \/ GetFilingsByCity
    \/ ToolGetFilingsByCity
    \/ ToolGetHighWageJobs
    \/ ToolGetJobsByCompany
    \/ ToolGetJobsByTitle
    \/ ToolGetSampleJoinedData
    \/ FormatJobResults
    \/ GetCompanyImmigrationProfile
    \/ GetClient
    \/ NewDataService
    \/ InitializeServices
    \/ GetJobsByCompany
    \/ GetJobsByTitle
    \/ GetPermByCity
    \/ GetAllJobsByCity
    \/ GetSampleJoinedDataAsync
    \/ ToolGetSampleLcaDataAsync
    \/ ToolFindJobsByCityAsync
    \/ GetCompanyRecommendation
    \/ Deliver

Spec == Init /\ [][Next]_vars

\* the client module and the constructions that go through it
NextClient == GetClient \/ NewDataService \/ InitializeServices \/ Deliver

SpecClient == Init /\ [][NextClient]_vars

\* the accessors of DataService that filter by employer, title or city
NextAccess ==
    \/ GetSampleJoinedData
    \/ GetFilingsByCity
    \/ GetHighWageJobs
    \/ GetJobsByCompany
    \/ GetJobsByTitle
    \/ GetPermByCity
    \/ GetAllJobsByCity
    \/ GetAllHighWageJobs
    \/ Deliver

SpecAccess == Init /\ [][NextAccess]_vars

\* the asynchronous variants
NextAsync ==
    \/ GetSampleJoinedDataAsync
    \/ ToolGetSampleLcaDataAsync
    \/ ToolFindJobsByCityAsync
    \/ Deliver

SpecAsync == Init /\ [][NextAsync]_vars

\* the recommendation table alone
NextRecommend == GetCompanyRecommendation \/ Deliver

SpecRecommend == Init /\ [][NextRecommend]_vars

\* the matchers alone
NextMatch == MatchIntents \/ Deliver

SpecMatch == Init /\ [][NextMatch]_vars

\* the top-level entry point alone
NextQuery == ProcessQuery \/ Deliver

SpecQuery == Init /\ [][NextQuery]_vars

\* the agent fallback alone
NextAgent == RunAgentQuery \/ Deliver

SpecAgent == Init /\ [][NextAgent]_vars

\* the company profile alone
NextProfile == GetCompanyImmigrationProfile \/ Deliver

SpecProfile == Init /\ [][NextProfile]_vars

\* the formatter alone
NextFormat == FormatJobResults \/ Deliver

SpecFormat == Init /\ [][NextFormat]_vars

\* the wage fetches and the query path that passes their records on
NextWage ==
    \/ GetHighWageJobs
    \/ GetPermHighWageJobs
    \/ GetAllHighWageJobs
    \/ ProcessQuery
    \/ Deliver

SpecWage == Init /\ [][NextWage]_vars

\* the accessors of the record store and the tools that wrap them
NextStore ==
    \/ GetHighWageJobs
    \/ GetPermHighWageJobs
    \/ GetAllHighWageJobs
    \/ GetSampleJoinedData
    \/ GetFilingsByCity
    \/ ToolGetFilingsByCity
    \/ ToolGetHighWageJobs
    \/ ToolGetJobsByCompany
    \/ ToolGetJobsByTitle
    \/ ToolGetSampleJoinedData
    \/ Deliver

SpecStore == Init /\ [][NextStore]_vars

(***************************************************************************)
(* Properties                                                              *)
(***************************************************************************)
\* the place of a handler in the order process_query is specified to try them
HandlerRank(name) ==
    CASE name = "faq" -> 1 [] name = "visa" -> 2 [] name = "wage" -> 3
      [] name = "guidance" -> 4 [] name = "agent" -> 5

\* the matcher of a handler matches the query; the agent fallback takes every
\* query the others leave
MatcherMatched(query, name) ==
    CASE name = "faq" -> Analysed[query].faq # None
      [] name = "visa" -> Analysed[query].visa # None
      [] name = "wage" -> Analysed[query].wage_info # None
      [] name = "guidance" -> Analysed[query].immigration
      [] name = "agent" -> TRUE

\* the kinds of value that model a Python string
StringKinds == {"text", "report", "faq_answer", "guidance"}

\* C1: process_query never raises: whatever the store, the source lookup and
\* the agent loop do, the call returns, and what it returns is a string.
C1_NeverRaises ==
    call.op = "process_query" => ret.tag = "ok" /\ ret.val.tag \in StringKinds

\* C1 witness: the FAQ handler raised, the visa handler met a store failure
\* and the guidance met one too, and the call still returned.
C1_Witness ==
    /\ call.op = "process_query"
    /\ Len(obs.handlers) = 3
    /\ obs.handlers[1].name = "faq" /\ obs.handlers[1].out.tag = "exc"
    /\ obs.handlers[2].name = "visa" /\ obs.handlers[2].out.tag = "exc"
    /\ obs.by = "guidance"
    /\ \A i \in 1..Len(obs.calls) : obs.calls[i].failed
    /\ ret.tag = "ok"

\* C2: the handlers run in the fixed order FAQ, visa class, wage threshold,
\* guidance, agent fallback; each handler that ran had its matcher match and
\* no matched matcher before the answering one was passed over; a handler
\* that completes is the last to run and its output is the response (a visa
\* match that completes issues the one sample fetch and nothing else).
C2_FirstMatchWins ==
    call.op = "process_query" =>
        LET hs == obs.handlers
            n == Len(hs)
        IN  /\ n >= 1
            /\ \A i \in 1..(n - 1) : HandlerRank(hs[i].name) < HandlerRank(hs[i + 1].name)
            /\ \A i \in 1..n : MatcherMatched(call.query, hs[i].name)
            /\ \A name \in {"faq", "visa", "wage", "guidance"} :
                  (HandlerRank(name) < HandlerRank(hs[n].name)
                   /\ MatcherMatched(call.query, name))
                  => \E i \in 1..n : hs[i].name = name
            /\ \A i \in 1..(n - 1) : ~hs[i].completed
            /\ hs[n].completed /\ obs.by = hs[n].name /\ ret = hs[n].out
            /\ obs.by = "faq" => obs.calls = <<>>
            /\ obs.by = "visa" =>
                  /\ Len(obs.calls) = 1
                  /\ obs.calls[1].fn = "get_sample_joined_data"

\* C2 witness: a query that names a visa class and an at-most wage is
\* answered by the visa handler, with a record above the wage in the answer.
C2_Witness ==
    /\ call.op = "process_query"
    /\ Analysed[call.query].visa # None
    /\ Analysed[call.query].wage_info # None
    /\ Analysed[call.query].wage_info.op = "lte"
    /\ obs.by = "visa"
    /\ \E i \in 1..Len(obs.formatted.val) :
          obs.formatted.val[i].wage > Analysed[call.query].wage_info.val

\* C3: every record a wage-at-least fetch returns, and every record of an
\* at-least wage answer of process_query, has a wage of at least the
\* threshold, whatever rows the store answered with.
C3_WageAtLeast ==
    /\ (call.op \in {"get_high_wage_jobs", "get_perm_high_wage_jobs",
                     "get_all_high_wage_jobs"} /\ ret.tag = "ok")
       => \A i \in 1..Len(ret.val) : ret.val[i].wage >= call.min_wage
    /\ (call.op = "process_query" /\ obs.by = "wage"
        /\ Analysed[call.query].wage_info.op = "gte")
       => \A i \in 1..Len(obs.formatted.val) :
             obs.formatted.val[i].wage >= Analysed[call.query].wage_info.val

\* C3 witness: the store answered with a worksite below the threshold and a
\* worksite without a wage, and the fetch returned records.
C3_Witness ==
    /\ call.op = "get_high_wage_jobs"
    /\ call.lca.tag = "ok"
    /\ \E i \in 1..Len(call.lca.val) : \E j \in 1..Len(call.lca.val[i].lca_worksites) :
          call.lca.val[i].lca_worksites[j].prevailing_wage = NoWage
    /\ \E i \in 1..Len(call.lca.val) : \E j \in 1..Len(call.lca.val[i].lca_worksites) :
          LET w == call.lca.val[i].lca_worksites[j].prevailing_wage
          IN  w # NoWage /\ w < call.min_wage
    /\ ret.tag = "ok" /\ ret.val # <<>>

\* C4: the result of a wage-at-least fetch is ordered by wage, highest first,
\* and records of equal wage stand in the order the store returned them, the
\* LCA rows before the PERM rows.
C4_SortedStable ==
    (call.op \in {"get_high_wage_jobs", "get_perm_high_wage_jobs",
                  "get_all_high_wage_jobs"} /\ ret.tag = "ok")
    => LET LcaKeys(record) ==
               [j \in 1..Len(record.lca_worksites) |->
                   <<record.case_number, record.lca_worksites[j].worksite_city>>]
           order == (IF call.lca # None THEN FlatMap(LcaKeys, call.lca.val) ELSE <<>>)
                    \o (IF call.perm # None
                        THEN [i \in 1..Len(call.perm.val) |->
                                 <<call.perm.val[i].case_number,
                                   call.perm.val[i].worksite_city>>]
                        ELSE <<>>)
           Pos(r) == CHOOSE p \in 1..Len(order) : order[p] = <<r.case_number, r.city>>
       IN  \A i \in 1..Len(ret.val) : \A j \in 1..Len(ret.val) :
              i < j => /\ ret.val[i].wage >= ret.val[j].wage
                       /\ ret.val[i].wage = ret.val[j].wage
                          => Pos(ret.val[i]) < Pos(ret.val[j])

\* C4 witness: a combined fetch returned an LCA record directly followed by
\* a PERM record of the same wage, after a record of higher wage.
C4_Witness ==
    /\ call.op = "get_all_high_wage_jobs"
    /\ ret.tag = "ok"
    /\ \E i \in 1..(Len(ret.val) - 1) :
          /\ ret.val[i].visa_class # "PERM"
          /\ ret.val[i + 1].visa_class = "PERM"
          /\ ret.val[i].wage = ret.val[i + 1].wage
    /\ \E i \in 1..(Len(ret.val) - 1) : ret.val[i].wage > ret.val[i + 1].wage

\* C5: the list an at-most wage query formats is the records of the fetched
\* sample with 0 < wage <= W, in the order of the sample.
C5_AtMostFilter ==
    (call.op = "process_query" /\ obs.by = "wage"
     /\ Analysed[call.query].wage_info.op = "lte")
    => LET W == Analysed[call.query].wage_info.val
           sample == get_sample_joined_data(Return(call.env.lca)).val
       IN  obs.formatted.val = SelectSeq(sample, LAMBDA r : 0 < r.wage /\ r.wage <= W)

\* C5 witness: the sample held a record without a wage, a record above the
\* threshold and a record the filter keeps.
C5_Witness ==
    /\ call.op = "process_query"
    /\ obs.by = "wage"
    /\ Analysed[call.query].wage_info.op = "lte"
    /\ \E i \in 1..Len(call.env.lca) : \E j \in 1..Len(call.env.lca[i].lca_worksites) :
          call.env.lca[i].lca_worksites[j].prevailing_wage = NoWage
    /\ \E i \in 1..Len(call.env.lca) : \E j \in 1..Len(call.env.lca[i].lca_worksites) :
          call.env.lca[i].lca_worksites[j].prevailing_wage
             > Analysed[call.query].wage_info.val
    /\ obs.formatted.val # <<>>

\* C6: the four spellings of 120000 (and 95 for 95000) are extracted with
\* their amount, at-most after "less than", "under" and "below", at-least
\* after "more than", "above", "over" and "at least", and at-least when the
\* amount stands bare.
C6_WageTokens ==
    call.op = "match_intents" =>
        \A d \in {"", "less than ", "under ", "below ", "more than ", "above ", "over ",
                  "at least "} :
           \A a \in {"120k", "$120,000", "120000", "120,000$", "95", "95000"} :
              call.query = d \o a
              => ret.wage = [tag |-> "wage",
                             val |-> IF a \in {"95", "95000"} THEN 95000 ELSE 120000,
                             op |-> IF d \in {"less than ", "under ", "below "}
                                    THEN "lte" ELSE "gte"]

\* C7: the visa-class and wage-threshold extractors of process_query give
\* for a query what they give for its normalized text.
C7_NormalizationInvariant ==
    call.op = "match_intents" =>
        /\ ret.visa = extract_visa(normalize_text(call.query))
        /\ ret.wage = extract_wage(normalize_text(call.query))

\* C8: when the agent loop fails and the store is unreachable for every call
\* of the later tiers, run_agent_query returns the fixed apology.
C8_ApologyWhenAllFail ==
    (call.op = "run_agent_query" /\ obs.tier # "agent_loop"
     /\ \A k \in 1..MaxStoreCalls : call.env.fail[k])
    => ret.val = AllFailedApology

C10_StoreFailurePropagates ==
    (call.op \in {"get_high_wage_jobs", "get_perm_high_wage_jobs",
                  "get_all_high_wage_jobs", "get_sample_joined_data",
                  "get_filings_by_city", "tool_get_filings_by_city",
                  "tool_get_high_wage_jobs", "tool_get_jobs_by_company",
                  "tool_get_jobs_by_title", "tool_get_sample_joined_data"}
     /\ (call.lca = StoreError \/ call.perm = StoreError))
    => ret.tag = "exc"

\* C11: format_job_results shows the total n in its header, renders the first
\* min(n, 10) records in input order numbered 1..min(n, 10), and closes with
\* "... and (n-10) more results" exactly when n > 10.
C11_PresentationCap ==
    call.op = "format_job_results" =>
        LET n == Len(call.results)
            shown == IF n < 10 THEN n ELSE 10
        IN  /\ ret.found = n
            /\ Len(ret.entries) = shown
            /\ \A i \in 1..shown :
                   /\ ret.entries[i].n = i
                   /\ ret.entries[i].company = call.results[i].company
            /\ (ret.more # 0) <=> (n > 10)
            /\ n > 10 => ret.more = n - 10

\* C11 witness: a list of 12 records was formatted to 10 entries and the
\* closing line for the 2 left out.
C11_Witness ==
    /\ call.op = "format_job_results"
    /\ Len(call.results) = 12
    /\ Len(ret.entries) = 10
    /\ ret.more = 2

C13_CommonRecordShape ==
    (/\ call.op \in {"get_high_wage_jobs", "get_perm_high_wage_jobs",
                     "get_all_high_wage_jobs", "get_sample_joined_data",
                     "get_filings_by_city", "tool_get_filings_by_city",
                     "tool_get_high_wage_jobs", "tool_get_jobs_by_company",
                     "tool_get_jobs_by_title", "tool_get_sample_joined_data"}
     /\ ret.tag = "ok")
    => \A i \in 1..Len(ret.val) :
          /\ {"company", "job_title", "city", "state", "wage", "visa_class"}
                 \subseteq DOMAIN ret.val[i]
          /\ Entry(i, ret.val[i], "H-1B").company = "Acme"

\* C14: a wage-threshold answer of process_query draws on both datasets:
\* when the store holds a PERM record whose wage qualifies and the answer
\* is not full, a PERM record is among the records formatted.
C14_WageDrawsOnBothDatasets ==
    (/\ call.op = "process_query"
     /\ obs.by = "wage"
     /\ Len(obs.formatted.val) < 40)
    => LET W == Analysed[call.query].wage_info.val
           atLeast == Analysed[call.query].wage_info.op = "gte"
           perm == call.env.perm
           Qualifies(r) ==
               /\ r.wage_offer_to # NoWage
               /\ IF atLeast THEN r.wage_offer_to >= W
                  ELSE 0 < r.wage_offer_to /\ r.wage_offer_to <= W
       IN  (\E k \in 1..Len(perm) : Qualifies(perm[k]))
           => \E i \in 1..Len(obs.formatted.val) :
                 obs.formatted.val[i].visa_class = "PERM"

\* the wages the store holds for the records of the two fetches of a company
\* profile, those that are strictly positive
PositiveLcaWages(rows) ==
    SelectSeq(FlatMap(LAMBDA r : [j \in 1..Len(r.lca_worksites) |->
                                    r.lca_worksites[j].prevailing_wage], rows),
              LAMBDA w : w # NoWage /\ w > 0)

PositivePermWages(rows) ==
    SelectSeq([k \in 1..Len(rows) |-> rows[k].wage_offer_to],
              LAMBDA w : w # NoWage /\ w > 0)

\* the mean of a non-empty list of wages as the report prints it
MeanShown(wages) ==
    LET sum[i \in 0..Len(wages)] == IF i = 0 THEN 0 ELSE sum[i - 1] + wages[i]
    IN  "$" \o Commas(RoundHalfEven(sum[Len(wages)], Len(wages)))

\* C15: the company profile reports for each dataset the mean of the
\* strictly positive wages of the records fetched, and "Not specified" only
\* when no fetched record of the dataset has a positive wage.
C15_MeanOfPositiveWages ==
    (call.op = "get_company_immigration_profile" /\ ret.tag = "profile")
    => LET lca == PositiveLcaWages(call.lca.val)
           perm == PositivePermWages(call.perm.val)
       IN  /\ ret.h1b.avg_wage = IF lca = <<>> THEN "Not specified" ELSE MeanShown(lca)
           /\ ret.perm.avg_wage = IF perm = <<>> THEN "Not specified"
                                  ELSE MeanShown(perm)

\* C16: for a company with no record in either dataset the company profile
\* is a report, not a failure: its recommendation is the "Not recommended"
\* one, both average wages are "Not specified", and the conversion rate is
\* given without a division.
C16_EmptyCompanyProfile ==
    (/\ call.op = "get_company_immigration_profile"
     /\ call.lca.tag = "ok" /\ call.perm.tag = "ok"
     /\ \A k \in 1..Len(call.lca.val) : call.lca.val[k].lca_worksites = <<>>
     /\ call.perm.val = <<>>)
    => /\ ret.tag = "profile"
       /\ StartsWithAt(ret.recommendation, 1, "Not recommended")
       /\ ret.h1b.avg_wage = "Not specified"
       /\ ret.perm.avg_wage = "Not specified"
       /\ ret.conv_rate = "Not specified"

\* C16 witness: both fetches answered with no row and the profile came back
\* as a report.
C16_Witness ==
    /\ call.op = "get_company_immigration_profile"
    /\ call.lca = Return(<<>>)
    /\ call.perm = Return(<<>>)
    /\ ret.tag = "profile"
    /\ ret.h1b.rating = "None"

\* the number of records each fetch of a company profile returns: one per
\* filing and worksite of lca_filings, one per row of perm_disclosure
LcaFetched(rows) == Len(FlatMap(LAMBDA r : r.lca_worksites, rows))

PermFetched(rows) == Len(rows)

\* C17 as claimed: when both fetches succeed the report has the sections
\* "H-1B Sponsorship" and "Green Card (PERM) Sponsorship", and the total
\* filings of each is the number of records fetched, 0 included.
C17_TotalsAreCounts ==
    (/\ call.op = "get_company_immigration_profile"
     /\ call.lca.tag = "ok" /\ call.perm.tag = "ok")
    => /\ ret.tag = "profile"
       /\ ret.h1b.title = "H-1B Sponsorship"
       /\ ret.perm.title = "Green Card (PERM) Sponsorship"
       /\ ret.h1b.total = ToString(LcaFetched(call.lca.val))
       /\ ret.perm.total = ToString(PermFetched(call.perm.val))

\* C17 as amended: when both fetches succeed the report has the two
\* sections, and the total filings of each is the number of records fetched
\* when that number is positive and "Not specified" when it is 0.
C17_TotalsShown ==
    (/\ call.op = "get_company_immigration_profile"
     /\ call.lca.tag = "ok" /\ call.perm.tag = "ok")
    => LET Shown(n) == IF n > 0 THEN ToString(n) ELSE "Not specified"
       IN  /\ ret.tag = "profile"
           /\ ret.h1b.title = "H-1B Sponsorship"
           /\ ret.perm.title = "Green Card (PERM) Sponsorship"
           /\ ret.h1b.total = Shown(LcaFetched(call.lca.val))
           /\ ret.perm.total = Shown(PermFetched(call.perm.val))

\* C17 witness: a profile of a company with no H-1B record and two PERM
\* records shows "Not specified" and "2".
C17_Witness ==
    /\ call.op = "get_company_immigration_profile"
    /\ call.lca = Return(<<>>)
    /\ call.perm.tag = "ok" /\ Len(call.perm.val) = 2
    /\ ret.tag = "profile"
    /\ ret.h1b.total = "Not specified"
    /\ ret.perm.total = "2"

\* the heading of the fixed answer of each FAQ topic
FaqHeading(intent) ==
    CASE intent = "top_h1b_companies_2025" -> "Top H-1B Petitioners (FY 2025)"
      [] intent = "majors_approval" -> "Majors With Higher H-1B Certification Odds"
      [] intent = "school_sponsors" -> "School H-1B Sponsorships"
      [] intent = "company_counts" -> "Employer H-1B Petition Counts"

\* C18: whenever the FAQ matcher matches the query, whether the page fetch
\* of the source lookup succeeds or fails, process_query returns the fixed
\* answer of the topic with its "Sources:" list, and the FAQ handler is the
\* one that produced the response.
C18_FaqAnswered ==
    (call.op = "process_query" /\ Analysed[call.query].faq # None)
    => /\ obs.by = "faq"
       /\ ret.tag = "ok"
       /\ ret.val.tag = "faq_answer"
       /\ ret.val.heading = FaqHeading(Analysed[call.query].faq.intent)
       /\ Len(ret.val.sources) >= 1

\* the visa class of a record is of the class asked for
OfClass(visa, record) ==
    /\ record.visa_class # NoText
    /\ record.visa_class # ""
    /\ LET v == lower(record.visa_class)
       IN  CASE visa = "H-1B" -> Contains(v, "h-1b")
             [] visa = "PERM" -> Contains(v, "perm") \/ Contains(v, "green card")
             [] visa = "E-3" -> Contains(v, "e-3") \/ Contains(v, "e3")

\* list is made of records of sample, in the order sample has them
InOrderOf(list, sample) ==
    \E f \in [1..Len(list) -> 1..Len(sample)] :
       /\ \A i \in 1..Len(list) : list[i] = sample[f[i]]
       /\ \A i \in 1..(Len(list) - 1) : f[i] < f[i + 1]

\* C19: the list process_query formats for a visa-class query holds only
\* records whose visa_class is non-empty and of the class asked for
\* (case-insensitive substring), in the order of the fetched sample, and is
\* not the sample itself when the sample has a record of another class.
C19_VisaFilter ==
    (call.op = "process_query" /\ obs.by = "visa")
    => LET visa == Analysed[call.query].visa.class
           sample == get_sample_joined_data(Return(call.env.lca)).val
           list == obs.formatted.val
       IN  /\ \A i \in 1..Len(list) : OfClass(visa, list[i])
           /\ InOrderOf(list, sample)
           /\ (\E k \in 1..Len(sample) : ~OfClass(visa, sample[k])) => list # sample

\* C19 witness: a visa-class query was answered from a sample that has
\* records of the class and records of other classes.
C19_Witness ==
    /\ call.op = "process_query"
    /\ obs.by = "visa"
    /\ Len(obs.formatted.val) >= 2
    /\ Len(obs.formatted.val) < Len(get_sample_joined_data(Return(call.env.lca)).val)

\* a fast-path handler (FAQ, visa class or wage) of the call ran and threw
FastPathThrew ==
    /\ call.op = "process_query"
    /\ \E i \in 1..Len(obs.handlers) :
          obs.handlers[i].name \in {"faq", "visa", "wage"} /\ ~obs.handlers[i].completed

\* the fast-path handler name ran after the first throw and completed
CompletedAfterThrow(name) ==
    \E i, j \in 1..Len(obs.handlers) :
       /\ i < j
       /\ ~obs.handlers[i].completed
       /\ obs.handlers[j].name = name /\ obs.handlers[j].completed

\* C20 as stated: when the handler of a matched FAQ, visa-class or wage
\* intent throws, the agent fallback answers: run_agent_query is called and
\* its result is the response, and no other handler answers.
C20_ThrowGoesToAgent ==
    FastPathThrew => obs.by = "agent" /\ obs.tier # "none"

\* C20: when the handler of a matched FAQ, visa-class or wage intent throws,
\* the later handlers are tried in the fixed order: a matched fast-path
\* handler that completes answers; otherwise provide_immigration_guidance
\* answers an immigration-related query, and run_agent_query is called and
\* answers exactly when the query is not immigration-related.  The handler
\* that threw never answers and no matched later handler is passed over.
C20_ThrowFallsThrough ==
    FastPathThrew =>
        LET hs == obs.handlers
            first == CHOOSE i \in 1..Len(hs) :
                        ~hs[i].completed /\ \A j \in 1..(i - 1) : hs[j].completed
            expected == IF CompletedAfterThrow("visa") THEN "visa"
                        ELSE IF CompletedAfterThrow("wage") THEN "wage"
                        ELSE IF is_immigration_query(call.query) THEN "guidance"
                        ELSE "agent"
        IN  /\ obs.by = expected
            /\ \A i \in 1..Len(hs) : ~hs[i].completed => obs.by # hs[i].name
            /\ \A name \in {"visa", "wage"} :
                  (/\ HandlerRank(hs[first].name) < HandlerRank(name)
                   /\ HandlerRank(name) <= HandlerRank(obs.by)
                   /\ MatcherMatched(call.query, name))
                  => \E i \in (first + 1)..Len(hs) : hs[i].name = name
            /\ obs.by = "agent" <=> obs.tier # "none"
            /\ ret = hs[Len(hs)].out /\ ret.tag = "ok"

\* C20 witness: a fast-path handler threw on a store failure and the agent
\* fallback answered a query that is not immigration-related.
C20_Witness ==
    /\ FastPathThrew
    /\ \E i \in 1..Len(obs.calls) : obs.calls[i].failed
    /\ ~is_immigration_query(call.query)
    /\ obs.by = "agent"

\* two store calls of one query are the same call: same accessor, same arguments
SameStoreCall(a, b) == a.fn = b.fn /\ a.args = b.args

C22_ConstructedOnce ==
    /\ created <= 1
    /\ (call.op = "get_client" /\ ret.tag = "ok") => ret.val = client
    /\ (call.op = "DataService" /\ call.client = NoClient /\ ret.tag = "ok")
       => ret.val.client = client
    /\ (call.op = "initialize_services" /\ ret.val # None) => ret.val.client = client

\* C30: a get_client call that finds the handle unset tries a construction;
\* when the construction raises, the call raises and the handle stays unset;
\* when it returns, the handle is set to what it returned; a call that finds
\* the handle set returns it, constructs nothing and leaves it as it is.
C30_FailureNotCached ==
    [][(pc = "ready" /\ call'.op = "get_client")
       => /\ client = NoClient
             => /\ obs'.attempts = 1
                /\ call'.outcome # "ok" => ret'.tag = "exc" /\ client' = NoClient
                /\ call'.outcome = "ok"
                   => ret'.tag = "ok" /\ client' = ret'.val /\ client' # NoClient
          /\ client # NoClient
             => /\ obs'.attempts = 0
                /\ ret' = Return(client)
                /\ client' = client /\ created' = created]_vars

\* C30 witness: two get_client calls raised, a later one constructed the
\* client, and a get_client call after it returned that handle.
C30_Witness ==
    /\ call.op = "get_client"
    /\ failures = 2
    /\ created = 1
    /\ obs.attempts = 0
    /\ ret = Return(client)

\* C23: a filing the store returns without worksites shows in the result of
\* the unfiltered sample, the employer fetch and the title fetch as exactly
\* one record, with no city and no state.
C23_NoWorksiteSurfaces ==
    (/\ call.op \in {"get_sample_joined_data", "get_jobs_by_company", "get_jobs_by_title"}
     /\ call.lca.tag = "ok" /\ ret.tag = "ok")
    => \A k \in 1..Len(call.lca.val) :
          call.lca.val[k].lca_worksites = <<>>
          => LET shown == {i \in 1..Len(ret.val) :
                             ret.val[i].case_number = call.lca.val[k].case_number}
             IN  /\ Cardinality(shown) = 1
                 /\ \A i \in shown :
                       /\ GetText(ret.val[i], "city") = NoText
                       /\ GetText(ret.val[i], "worksite_city") = NoText
                       /\ GetText(ret.val[i], "state") = NoText

\* the city of a record contains the needle, case ignored
CityHas(record, needle) ==
    /\ GetText(record, "city") # NoText
    /\ Contains(lower(GetText(record, "city")), lower(needle))

\* C24: every record a city fetch returns, on either dataset or on both,
\* has a city that contains the needle when case is ignored, whatever rows
\* the store answered with.
C24_CityContainsNeedle ==
    (call.op \in {"get_filings_by_city", "get_perm_by_city", "get_all_jobs_by_city"}
     /\ ret.tag = "ok")
    => \A i \in 1..Len(ret.val) : CityHas(ret.val[i], call.city)

\* C25: a combined fetch with limit L takes at most L \div 2 records from
\* each dataset and returns at most L records; the city fetch returns the
\* LCA records followed by the PERM records, the wage fetch the records in
\* descending order of wage.
C25_CombinedSplitsLimit ==
    (call.op \in {"get_all_jobs_by_city", "get_all_high_wage_jobs"} /\ ret.tag = "ok")
    => LET half == call.limit \div 2
           lca == SelectSeq(ret.val, LAMBDA j : j.visa_class # "PERM")
           perm == SelectSeq(ret.val, LAMBDA j : j.visa_class = "PERM")
       IN  /\ Len(lca) <= half
           /\ Len(perm) <= half
           /\ Len(ret.val) <= call.limit
           /\ call.op = "get_all_jobs_by_city" => ret.val = lca \o perm
           /\ call.op = "get_all_high_wage_jobs"
              => \A i \in 1..(Len(ret.val) - 1) : ret.val[i].wage >= ret.val[i + 1].wage

\* C26: a single-dataset accessor called with limit L returns at most L
\* records when the store answers with at most the rows it was asked for.
C26_AtMostLimit ==
    (call.op \in {"get_sample_joined_data", "get_filings_by_city", "get_high_wage_jobs",
                  "get_jobs_by_company", "get_jobs_by_title", "get_perm_by_city",
                  "get_perm_high_wage_jobs"}
     /\ ret.tag = "ok")
    => Len(ret.val) <= call.limit

\* C27: an asynchronous variant returns what its synchronous counterpart
\* returns for the same store contents and arguments, error outcomes
\* included: the sample fetch, the sample tool and the city tool.
C27_AsyncSameAsSync ==
    /\ call.op = "get_sample_joined_data_async" => ret = get_sample_joined_data(call.lca)
    /\ call.op = "get_sample_lca_data_async"
       => ret = get_sample_lca_data(call.limit_str, call.env, 1).out
    /\ call.op = "find_jobs_by_city_async"
       => ret = find_jobs_by_city(call.city, call.env, 1).out

\* C28: no wage threshold is extracted from an amount that is immediately
\* followed by a letter other than the suffix k ("120kb", "50mb"), neither
\* from the whole run of digits nor from a shorter prefix of it.
C28_LetterAfterAmountRejected ==
    call.op = "match_intents" =>
        \A d \in DirectionWords : \A a \in {"120kb", "50mb"} : \A t \in QueryTails :
           call.query = d \o a \o t => ret.wage = None

\* the rank of a recommendation: 5 for Strong sponsor down to 1 for Not
\* recommended, 0 for any other text
TierOf(text) ==
    IF StartsWithAt(text, 1, "Strong sponsor") THEN 5
    ELSE IF StartsWithAt(text, 1, "Good option") THEN 4
    ELSE IF StartsWithAt(text, 1, "Mixed") THEN 3
    ELSE IF StartsWithAt(text, 1, "Weak") THEN 2
    ELSE IF StartsWithAt(text, 1, "Not recommended") THEN 1
    ELSE 0

\* C29: the recommendation for a pair of counts is one of the five tiers
\* and is never below the recommendation for a pair with fewer or as many
\* H-1B filings and fewer or as many PERM filings.
C29_RecommendationMonotone ==
    call.op = "get_company_recommendation" =>
        /\ TierOf(ret) \in 1..5
        /\ \A h \in 0..call.h1b_count : \A p \in 0..call.perm_count :
              TierOf(get_company_recommendation(h, p)) <= TierOf(ret)

\* C29 witness: a pair of counts in the top tier, above pairs of every
\* other tier.
C29_Witness ==
    /\ call.op = "get_company_recommendation"
    /\ TierOf(ret) = 5
    /\ \A t \in 1..4 :
          \E h \in 0..call.h1b_count : \E p \in 0..call.perm_count :
             TierOf(get_company_recommendation(h, p)) = t

====
